---- MODULE Spec2Model ----
(***************************************************************************)
(* Consensus parameter and quorum-selection engine of src/chainparams.cpp: *)
(* the process-wide parameter handle (globalChainParams), the adaptation   *)
(* state (lastCheckMnCount, lastCheckHeight), the quorum adaptation engine *)
(* (UpdateLLMQParams) and the masternode activation query                  *)
(* (IsValidMNActivation).                                                  *)
(***************************************************************************)
EXTENDS Integers, FiniteSets, Sequences, TLC

VARIABLES
    globalChainParams,  \* the selected CChainParams object, or NullParams
    lastCheckMnCount,   \* static size_t lastCheckMnCount
    lastCheckHeight,    \* static int lastCheckHeight
    call,               \* the most recent invocation: arguments, branch, result
    aborted,            \* TRUE once an assert() has failed (process aborted)
    threads             \* per worker thread, its UpdateLLMQParams call in progress

vars == <<globalChainParams, lastCheckMnCount, lastCheckHeight, call, aborted, threads>>

-----------------------------------------------------------------------------
(* Bounds of the explored inputs *)

\* heights supplied to UpdateLLMQParams range over -1..MaxHeight
MaxHeight == 4

\* times supplied to IsValidMNActivation and -vbparams range over -1..MaxTime
MaxTime == 3

Heights == -1 .. MaxHeight

\* masternode counts on both sides of every tier boundary of the source
Counts == {0, 79, 80, 99, 100, 199, 200, 599, 600, 2000, 2001}

Networks == {"main", "test", "devnet", "regtest"}

\* selector strings handed to SelectParams; "bogus" is no known chain
Selectors == Networks \cup {"bogus"}

-----------------------------------------------------------------------------
(* Quorum catalog *)

AdaptedTypes == {"LLMQ_50_60", "LLMQ_60_75", "LLMQ_400_60", "LLMQ_400_85"}

\* Consensus::LLMQParams::type of each record of llmq/params.h
LLMQTypeOf(name) ==
    CASE name \in {"llmq_10_60", "llmq_50_60"}                 -> "LLMQ_50_60"
      [] name \in {"llmq_10_75", "llmq_20_75", "llmq_60_75"}   -> "LLMQ_60_75"
      [] name \in {"llmq_20_60", "llmq_40_60", "llmq_400_60"}  -> "LLMQ_400_60"
      [] name \in {"llmq_20_85", "llmq_40_85", "llmq_400_85"}  -> "LLMQ_400_85"
      [] name = "llmq_100_67"            -> "LLMQ_100_67"
      [] name = "llmq_devnet"            -> "LLMQ_DEVNET"
      [] name = "llmq_devnet_dip0024"    -> "LLMQ_DEVNET_DIP0024"
      [] name = "llmq_devnet_platform"   -> "LLMQ_DEVNET_PLATFORM"
      [] name = "llmq_test"              -> "LLMQ_TEST"
      [] name = "llmq_test_instantsend"  -> "LLMQ_TEST_INSTANTSEND"
      [] name = "llmq_test_v17"          -> "LLMQ_TEST_V17"
      [] name = "llmq_test_dip0024"      -> "LLMQ_TEST_DIP0024"
      [] name = "llmq_test_platform"     -> "LLMQ_TEST_PLATFORM"

\* DKG timing of a quorum type: <<dkgInterval, dkgMiningWindowStart,
\* dkgMiningWindowEnd>>.  The size variants of one type share the timing of
\* the type; intervals and windows are scaled down so that windows of all
\* adapted types open within the explored heights.
DkgTiming(type) ==
    CASE type \in {"LLMQ_50_60", "LLMQ_100_67"}  -> <<4, 1, 1>>
      [] type = "LLMQ_400_60"                    -> <<8, 2, 2>>
      [] type = "LLMQ_60_75"                     -> <<8, 3, 3>>
      [] type = "LLMQ_400_85"                    -> <<16, 2, 3>>
      [] OTHER                                   -> <<4, 1, 1>>

\* Consensus::LLMQParams::useRotation: the DIP0024 quorums rotate
UseRotation(type) ==
    type \in {"LLMQ_60_75", "LLMQ_TEST_DIP0024", "LLMQ_DEVNET_DIP0024"}

\* Consensus::LLMQParams::size of each record: the number of members the
\* name of the record carries
LLMQSize(name) ==
    CASE name \in {"llmq_10_60", "llmq_10_75"}                -> 10
      [] name \in {"llmq_20_60", "llmq_20_75", "llmq_20_85"}  -> 20
      [] name \in {"llmq_40_60", "llmq_40_85"}                -> 40
      [] name = "llmq_50_60"                                   -> 50
      [] name = "llmq_60_75"                                   -> 60
      [] name = "llmq_100_67"                                  -> 100
      [] name \in {"llmq_400_60", "llmq_400_85"}              -> 400
      [] name \in {"llmq_devnet", "llmq_devnet_platform"}     -> 12
      [] name = "llmq_devnet_dip0024"                          -> 8
      [] name = "llmq_test_dip0024"                            -> 4
      [] OTHER                                                 -> 3

\* a Consensus::LLMQParams record
LLMQParams(name) ==
    [name                 |-> name,
     type                 |-> LLMQTypeOf(name),
     size                 |-> LLMQSize(name),
     useRotation          |-> UseRotation(LLMQTypeOf(name)),
     dkgInterval          |-> DkgTiming(LLMQTypeOf(name))[1],
     dkgMiningWindowStart |-> DkgTiming(LLMQTypeOf(name))[2],
     dkgMiningWindowEnd   |-> DkgTiming(LLMQTypeOf(name))[3]]

\* the keys of consensus.llmqs in the order std::map iterates them, which is
\* the order of the enum values of Consensus::LLMQType
LLMQTypeOrder ==
    <<"LLMQ_50_60", "LLMQ_400_60", "LLMQ_400_85", "LLMQ_100_67", "LLMQ_60_75",
      "LLMQ_TEST", "LLMQ_DEVNET", "LLMQ_TEST_V17", "LLMQ_TEST_DIP0024",
      "LLMQ_TEST_INSTANTSEND", "LLMQ_DEVNET_DIP0024", "LLMQ_TEST_PLATFORM",
      "LLMQ_DEVNET_PLATFORM">>

\* every Consensus::LLMQType a caller can ask for; LLMQ_NONE and LLMQ_25_67
\* are stored by no profile
LLMQTypes ==
    {LLMQTypeOrder[i] : i \in DOMAIN LLMQTypeOrder} \cup {"LLMQ_NONE", "LLMQ_25_67"}

\* std::nullopt of std::optional<Consensus::LLMQParams>
Nullopt ==
    [name |-> "nullopt", type |-> "LLMQ_NONE", size |-> 0, useRotation |-> FALSE,
     dkgInterval |-> 0, dkgMiningWindowStart |-> 0, dkgMiningWindowEnd |-> 0]

RECURSIVE GetLLMQFrom_SkipFirst(_, _, _)
\* GetLLMQFrom answering from the second key on only
GetLLMQFrom_SkipFirst(llmqs, i, llmqType) ==
    IF i > Len(LLMQTypeOrder) THEN Nullopt
    ELSE IF /\ i > 1
            /\ LLMQTypeOrder[i] \in DOMAIN llmqs
            /\ llmqs[LLMQTypeOrder[i]].type = llmqType
         THEN llmqs[LLMQTypeOrder[i]]
         ELSE GetLLMQFrom_SkipFirst(llmqs, i + 1, llmqType)

RECURSIVE GetLLMQFrom(_, _, _)
\* the loop of CChainParams::GetLLMQ from the i-th key on: the first stored
\* record whose type field is llmqType, or std::nullopt
GetLLMQFrom(llmqs, i, llmqType) ==
    IF i > Len(LLMQTypeOrder) THEN Nullopt
    ELSE IF /\ LLMQTypeOrder[i] \in DOMAIN llmqs
            /\ llmqs[LLMQTypeOrder[i]].type = llmqType
         THEN llmqs[LLMQTypeOrder[i]]
         ELSE GetLLMQFrom(llmqs, i + 1, llmqType)

\* consensus.llmqs as filled by the constructor of each profile
BaseLLMQs(network) ==
    CASE network \in {"main", "test"} ->
            [t \in AdaptedTypes \cup {"LLMQ_100_67"} |->
                CASE t = "LLMQ_50_60"  -> LLMQParams("llmq_50_60")
                  [] t = "LLMQ_60_75"  -> LLMQParams("llmq_60_75")
                  [] t = "LLMQ_400_60" -> LLMQParams("llmq_20_60")
                  [] t = "LLMQ_400_85" -> LLMQParams("llmq_20_85")
                  [] t = "LLMQ_100_67" -> LLMQParams("llmq_100_67")]
      [] network = "devnet" ->
            [t \in AdaptedTypes \cup {"LLMQ_100_67", "LLMQ_DEVNET",
                                      "LLMQ_DEVNET_DIP0024", "LLMQ_DEVNET_PLATFORM"} |->
                CASE t = "LLMQ_50_60"  -> LLMQParams("llmq_50_60")
                  [] t = "LLMQ_60_75"  -> LLMQParams("llmq_60_75")
                  [] t = "LLMQ_400_60" -> LLMQParams("llmq_20_60")
                  [] t = "LLMQ_400_85" -> LLMQParams("llmq_20_85")
                  [] t = "LLMQ_100_67" -> LLMQParams("llmq_100_67")
                  [] t = "LLMQ_DEVNET" -> LLMQParams("llmq_devnet")
                  [] t = "LLMQ_DEVNET_DIP0024"  -> LLMQParams("llmq_devnet_dip0024")
                  [] t = "LLMQ_DEVNET_PLATFORM" -> LLMQParams("llmq_devnet_platform")]
      [] network = "regtest" ->
            [t \in {"LLMQ_TEST", "LLMQ_TEST_INSTANTSEND", "LLMQ_TEST_V17",
                    "LLMQ_TEST_DIP0024", "LLMQ_TEST_PLATFORM"} |->
                CASE t = "LLMQ_TEST"             -> LLMQParams("llmq_test")
                  [] t = "LLMQ_TEST_INSTANTSEND" -> LLMQParams("llmq_test_instantsend")
                  [] t = "LLMQ_TEST_V17"         -> LLMQParams("llmq_test_v17")
                  [] t = "LLMQ_TEST_DIP0024"     -> LLMQParams("llmq_test_dip0024")
                  [] t = "LLMQ_TEST_PLATFORM"    -> LLMQParams("llmq_test_platform")]

-----------------------------------------------------------------------------
(* Deployment table *)

\* assert(nBit < VERSIONBITS_NUM_BITS) of IsValidMNActivation
VERSIONBITS_NUM_BITS == 29

\* Consensus::BIP9Deployment::NO_TIMEOUT, the largest int64_t; here the
\* largest integer the model checker represents
NO_TIMEOUT == 2147483647

\* Consensus::DeploymentPos, in index order
DEPLOYMENT_TESTDUMMY == 1
DEPLOYMENT_V20 == 2
DEPLOYMENT_MN_RR == 3
MAX_VERSION_BITS_DEPLOYMENTS == 3

DeploymentPos == 1 .. MAX_VERSION_BITS_DEPLOYMENTS

\* a Consensus::BIP9Deployment; the fields a constructor does not assign keep
\* the defaults of the struct
BIP9Deployment(bit, nStartTime, nTimeout, nWindowSize, nThresholdStart, nThresholdMin, nFalloffCoeff, useEHF) ==
    [bit |-> bit, nStartTime |-> nStartTime, nTimeout |-> nTimeout,
     nWindowSize |-> nWindowSize, nThresholdStart |-> nThresholdStart,
     nThresholdMin |-> nThresholdMin, nFalloffCoeff |-> nFalloffCoeff,
     useEHF |-> useEHF]

\* consensus.vDeployments as assigned by the constructor of each profile
BaseDeployments(network) ==
    CASE network = "main" ->
            <<BIP9Deployment(28, 1199145601, 1230767999, 0, 0, 0, 0, FALSE),
              BIP9Deployment(9, 0, 1740787200, 4032, 3226, 2420, 5, FALSE),
              BIP9Deployment(10, 0, 1740787200, 4032, 3226, 2420, 5, TRUE)>>
      [] network = "test" ->
            <<BIP9Deployment(28, 1199145601, 1230767999, 0, 0, 0, 0, FALSE),
              BIP9Deployment(9, 0, NO_TIMEOUT, 100, 80, 60, 5, FALSE),
              BIP9Deployment(10, 0, NO_TIMEOUT, 100, 80, 60, 5, TRUE)>>
      [] network = "devnet" ->
            <<BIP9Deployment(28, 1199145601, 1230767999, 0, 0, 0, 0, FALSE),
              BIP9Deployment(9, 0, NO_TIMEOUT, 120, 80, 60, 5, FALSE),
              BIP9Deployment(10, 0, NO_TIMEOUT, 120, 80, 60, 5, TRUE)>>
      [] network = "regtest" ->
            <<BIP9Deployment(28, 0, NO_TIMEOUT, 0, 0, 0, 0, FALSE),
              BIP9Deployment(9, 0, NO_TIMEOUT, 400, 384, 288, 5, FALSE),
              BIP9Deployment(10, 0, NO_TIMEOUT, 12, 9, 7, 5, TRUE)>>

\* UpdateVersionBitsParameters storing the start threshold in nThresholdMin too
UpdateVersionBitsParameters_ThresholdMixed(vDeployments, d, nStartTime, nTimeout, nWindowSize, nThresholdStart, nThresholdMin, nFalloffCoeff, nUseEHF) ==
    [vDeployments EXCEPT ![d] =
        [bit             |-> @.bit,
         nStartTime      |-> nStartTime,
         nTimeout        |-> nTimeout,
         nWindowSize     |-> IF nWindowSize # -1 THEN nWindowSize ELSE @.nWindowSize,
         nThresholdStart |-> IF nThresholdStart # -1 THEN nThresholdStart
                                                     ELSE @.nThresholdStart,
         nThresholdMin   |-> IF nThresholdStart # -1 THEN nThresholdStart
                                                     ELSE @.nThresholdMin,
         nFalloffCoeff   |-> IF nFalloffCoeff # -1 THEN nFalloffCoeff ELSE @.nFalloffCoeff,
         useEHF          |-> IF nUseEHF # -1 THEN nUseEHF > 0 ELSE @.useEHF]]

\* CRegTestParams::UpdateVersionBitsParameters: -1 leaves an optional field alone
UpdateVersionBitsParameters(vDeployments, d, nStartTime, nTimeout, nWindowSize, nThresholdStart, nThresholdMin, nFalloffCoeff, nUseEHF) ==
    [vDeployments EXCEPT ![d] =
        [bit             |-> @.bit,
         nStartTime      |-> nStartTime,
         nTimeout        |-> nTimeout,
         nWindowSize     |-> IF nWindowSize # -1 THEN nWindowSize ELSE @.nWindowSize,
         nThresholdStart |-> IF nThresholdStart # -1 THEN nThresholdStart
                                                     ELSE @.nThresholdStart,
         nThresholdMin   |-> IF nThresholdMin # -1 THEN nThresholdMin ELSE @.nThresholdMin,
         nFalloffCoeff   |-> IF nFalloffCoeff # -1 THEN nFalloffCoeff ELSE @.nFalloffCoeff,
         useEHF          |-> IF nUseEHF # -1 THEN nUseEHF > 0 ELSE @.useEHF]]

\* the decimal digits; an argument string is a sequence of characters
Digits == <<"0", "1", "2", "3", "4", "5", "6", "7", "8", "9">>

DigitSet == {Digits[i] : i \in DOMAIN Digits}

IsDigit(c) == c \in DigitSet

DigitValue(c) ==
    CASE c = "0" -> 0 [] c = "1" -> 1 [] c = "2" -> 2 [] c = "3" -> 3 [] c = "4" -> 4
      [] c = "5" -> 5 [] c = "6" -> 6 [] c = "7" -> 7 [] c = "8" -> 8 [] c = "9" -> 9

RECURSIVE ParseDigits(_, _, _)
\* the digit string str read from position i on, most significant digit
\* first: ok is FALSE when a character is no digit
ParseDigits(str, i, value) ==
    IF i > Len(str) THEN [ok |-> TRUE, value |-> value]
    ELSE IF ~IsDigit(str[i]) THEN [ok |-> FALSE, value |-> 0]
    ELSE ParseDigits(str, i + 1, 10 * value + DigitValue(str[i]))

\* ParseInt64 of util/strencodings: the whole string is an optional minus sign
\* and at least one digit, or the parse fails
ParseInt64(str) ==
    IF str = <<>> THEN [ok |-> FALSE, value |-> 0]
    ELSE IF str[1] = "-" THEN
        LET r == ParseDigits(str, 2, 0)
        IN  [ok |-> Len(str) > 1 /\ r.ok, value |-> 0 - r.value]
    ELSE ParseDigits(str, 1, 0)

RECURSIVE FormatNat(_)
\* the decimal text of a natural number as typed on the command line
FormatNat(n) ==
    IF n < 10 THEN <<Digits[n + 1]>>
    ELSE FormatNat(n \div 10) \o <<Digits[(n % 10) + 1]>>

\* the decimal text of an integer as typed on the command line
FormatInt(n) == IF n < 0 THEN <<"-">> \o FormatNat(0 - n) ELSE FormatNat(n)

RECURSIVE SplitStringFrom(_, _, _, _, _)
\* the scan of SplitString from position i on: field is the field being read
\* and fields the ones completed
SplitStringFrom(str, sep, i, field, fields) ==
    IF i > Len(str) THEN Append(fields, field)
    ELSE IF str[i] = sep THEN SplitStringFrom(str, sep, i + 1, <<>>, Append(fields, field))
    ELSE SplitStringFrom(str, sep, i + 1, Append(field, str[i]), fields)

\* SplitString(str, sep): the fields between the separators, empty ones kept
SplitString(str, sep) == SplitStringFrom(str, sep, 1, <<>>, <<>>)

RECURSIVE JoinFields(_)
\* the fields of a command-line entry written with ':' between them
JoinFields(fields) ==
    IF Len(fields) = 1 THEN fields[1]
    ELSE fields[1] \o <<":">> \o JoinFields(Tail(fields))

\* VersionBitsDeploymentInfo[j].name, in DeploymentPos order:
\* testdummy, v20, mn_rr
VersionBitsDeploymentInfo ==
    << <<"t", "e", "s", "t", "d", "u", "m", "m", "y">>,
       <<"v", "2", "0">>,
       <<"m", "n", "_", "r", "r">> >>

\* the value of an option that is not set (IsArgSet is false)
Unset == "<unset>"

\* gArgs with none of the modelled options set; -vbparams is a list of
\* strings, each of the quorum-role options one string
NoArgs ==
    [vbparams                   |-> <<>>,
     llmqchainlocks             |-> Unset,
     llmqinstantsenddip0024     |-> Unset,
     llmqplatform               |-> Unset,
     llmqmnhf                   |-> Unset,
     llmqtestinstantsenddip0024 |-> Unset]

\* what a constructor yields: the object, or the runtime_error it threw
Constructed(params) == [ok |-> TRUE, error |-> "", params |-> params]

Thrown(error, params) == [ok |-> FALSE, error |-> error, params |-> params]

\* UpdateActivationParametersFromArg taking every string of three fields or
\* more, the fields past a known form ignored
UpdateActivationParametersFromArg_AnySize(r, vDeploymentParams) ==
    LET size == Len(vDeploymentParams)
        nStartTime == ParseInt64(vDeploymentParams[2])
        nTimeout == ParseInt64(vDeploymentParams[3])
        nWindowSize == ParseInt64(vDeploymentParams[4])
        nThresholdStart == ParseInt64(vDeploymentParams[5])
        nThresholdMin == ParseInt64(vDeploymentParams[6])
        nFalloffCoeff == ParseInt64(vDeploymentParams[7])
        nUseEHF == ParseInt64(vDeploymentParams[8])
        found == {j \in DeploymentPos :
                      vDeploymentParams[1] = VersionBitsDeploymentInfo[j]}
    IN  IF size < 3
            THEN Thrown("Version bits parameters malformed", r.params)
        ELSE IF ~nStartTime.ok THEN Thrown("Invalid nStartTime", r.params)
        ELSE IF ~nTimeout.ok THEN Thrown("Invalid nTimeout", r.params)
        ELSE IF size >= 5 /\ ~nWindowSize.ok THEN Thrown("Invalid nWindowSize", r.params)
        ELSE IF size >= 5 /\ ~nThresholdStart.ok
            THEN Thrown("Invalid nThresholdStart", r.params)
        ELSE IF size >= 8 /\ ~nThresholdMin.ok THEN Thrown("Invalid nThresholdMin", r.params)
        ELSE IF size >= 8 /\ ~nFalloffCoeff.ok THEN Thrown("Invalid nFalloffCoeff", r.params)
        ELSE IF size >= 8 /\ ~nUseEHF.ok THEN Thrown("Invalid nUseEHF", r.params)
        ELSE IF found = {} THEN Thrown("Invalid deployment", r.params)
        ELSE Constructed(
                [r.params EXCEPT !.vDeployments =
                    UpdateVersionBitsParameters(@, CHOOSE j \in found : TRUE,
                        nStartTime.value, nTimeout.value,
                        IF size >= 5 THEN nWindowSize.value ELSE -1,
                        IF size >= 5 THEN nThresholdStart.value ELSE -1,
                        IF size >= 8 THEN nThresholdMin.value ELSE -1,
                        IF size >= 8 THEN nFalloffCoeff.value ELSE -1,
                        IF size >= 8 THEN nUseEHF.value ELSE -1)])

\* the body of the loop of UpdateActivationParametersFromArgs for the fields
\* vDeploymentParams of one -vbparams string, on a result that has not thrown
UpdateActivationParametersFromArg(r, vDeploymentParams) ==
    LET size == Len(vDeploymentParams)
        nStartTime == ParseInt64(vDeploymentParams[2])
        nTimeout == ParseInt64(vDeploymentParams[3])
        nWindowSize == ParseInt64(vDeploymentParams[4])
        nThresholdStart == ParseInt64(vDeploymentParams[5])
        nThresholdMin == ParseInt64(vDeploymentParams[6])
        nFalloffCoeff == ParseInt64(vDeploymentParams[7])
        nUseEHF == ParseInt64(vDeploymentParams[8])
        found == {j \in DeploymentPos :
                      vDeploymentParams[1] = VersionBitsDeploymentInfo[j]}
    IN  IF size # 3 /\ size # 5 /\ size # 8
            THEN Thrown("Version bits parameters malformed", r.params)
        ELSE IF ~nStartTime.ok THEN Thrown("Invalid nStartTime", r.params)
        ELSE IF ~nTimeout.ok THEN Thrown("Invalid nTimeout", r.params)
        ELSE IF size >= 5 /\ ~nWindowSize.ok THEN Thrown("Invalid nWindowSize", r.params)
        ELSE IF size >= 5 /\ ~nThresholdStart.ok
            THEN Thrown("Invalid nThresholdStart", r.params)
        ELSE IF size = 8 /\ ~nThresholdMin.ok THEN Thrown("Invalid nThresholdMin", r.params)
        ELSE IF size = 8 /\ ~nFalloffCoeff.ok THEN Thrown("Invalid nFalloffCoeff", r.params)
        ELSE IF size = 8 /\ ~nUseEHF.ok THEN Thrown("Invalid nUseEHF", r.params)
        ELSE IF found = {} THEN Thrown("Invalid deployment", r.params)
        ELSE Constructed(
                [r.params EXCEPT !.vDeployments =
                    UpdateVersionBitsParameters(@, CHOOSE j \in found : TRUE,
                        nStartTime.value, nTimeout.value,
                        IF size >= 5 THEN nWindowSize.value ELSE -1,
                        IF size >= 5 THEN nThresholdStart.value ELSE -1,
                        IF size = 8 THEN nThresholdMin.value ELSE -1,
                        IF size = 8 THEN nFalloffCoeff.value ELSE -1,
                        IF size = 8 THEN nUseEHF.value ELSE -1)])

RECURSIVE UpdateActivationParametersFromArgs(_, _)
\* CRegTestParams::UpdateActivationParametersFromArgs: the -vbparams strings
\* are applied in turn and the first bad one throws
UpdateActivationParametersFromArgs(r, vbparams) ==
    IF ~r.ok \/ vbparams = <<>> THEN r
    ELSE UpdateActivationParametersFromArgs(
            UpdateActivationParametersFromArg(r, SplitString(Head(vbparams), ":")),
            Tail(vbparams))

\* the -vbparams string for deployment d: the 3-field form when nUseEHF is -1,
\* else the 8-field form with the other optional fields at -1
VbEntry(d, nStartTime, nTimeout, nUseEHF) ==
    IF nUseEHF = -1
    THEN JoinFields(<<VersionBitsDeploymentInfo[d], FormatInt(nStartTime),
                      FormatInt(nTimeout)>>)
    ELSE JoinFields(<<VersionBitsDeploymentInfo[d], FormatInt(nStartTime),
                      FormatInt(nTimeout), FormatInt(-1), FormatInt(-1),
                      FormatInt(-1), FormatInt(-1), FormatInt(nUseEHF)>>)

\* no -vbparams string or one well-formed string for deployment d
VbEntries(d) ==
    {<<>>} \cup
    {<<VbEntry(d, nStartTime, MaxTime - 1, nUseEHF)>> :
        nStartTime \in {0, 1}, nUseEHF \in {-1, 0, 1}}

\* command lines with no -vbparams or one well-formed -vbparams string
VbParams ==
    {[NoArgs EXCEPT !.vbparams = e] : e \in UNION {VbEntries(d) : d \in DeploymentPos}}

RECURSIVE IsValidMNActivation_TimeoutExcluded(_, _, _, _)
\* IsValidMNActivationFrom with the timeout bound excluded from the window
IsValidMNActivation_TimeoutExcluded(vDeployments, index, nBit, timePast) ==
    IF index > MAX_VERSION_BITS_DEPLOYMENTS THEN TRUE
    ELSE IF vDeployments[index].bit = nBit THEN
        IF timePast >= vDeployments[index].nTimeout
              \/ timePast < vDeployments[index].nStartTime
        THEN IsValidMNActivation_TimeoutExcluded(vDeployments, index + 1, nBit, timePast)
        ELSE IF ~vDeployments[index].useEHF THEN FALSE
        ELSE TRUE
    ELSE IsValidMNActivation_TimeoutExcluded(vDeployments, index + 1, nBit, timePast)

RECURSIVE IsValidMNActivation_UnknownFalse(_, _, _, _)
\* IsValidMNActivationFrom answering false for a bit the loop did not settle
IsValidMNActivation_UnknownFalse(vDeployments, index, nBit, timePast) ==
    IF index > MAX_VERSION_BITS_DEPLOYMENTS THEN FALSE
    ELSE IF vDeployments[index].bit = nBit THEN
        IF timePast > vDeployments[index].nTimeout
              \/ timePast < vDeployments[index].nStartTime
        THEN IsValidMNActivation_UnknownFalse(vDeployments, index + 1, nBit, timePast)
        ELSE IF ~vDeployments[index].useEHF THEN FALSE
        ELSE TRUE
    ELSE IsValidMNActivation_UnknownFalse(vDeployments, index + 1, nBit, timePast)

RECURSIVE IsValidMNActivationFrom(_, _, _, _)
\* the loop of IsValidMNActivation from position index on: a matching
\* deployment out of its time range is skipped (continue), the first matching
\* one in range decides, and the fall-through after the loop returns true
IsValidMNActivationFrom(vDeployments, index, nBit, timePast) ==
    IF index > MAX_VERSION_BITS_DEPLOYMENTS THEN TRUE
    ELSE IF vDeployments[index].bit = nBit THEN
        IF timePast > vDeployments[index].nTimeout
              \/ timePast < vDeployments[index].nStartTime
        THEN IsValidMNActivationFrom(vDeployments, index + 1, nBit, timePast)
        ELSE IF ~vDeployments[index].useEHF THEN FALSE
        ELSE TRUE
    ELSE IsValidMNActivationFrom(vDeployments, index + 1, nBit, timePast)

-----------------------------------------------------------------------------
(* Global parameter handle *)

\* globalChainParams before any SelectParams: an empty unique_ptr
NullParams ==
    [strNetworkID |-> "nullptr", llmqs |-> [t \in {} |-> 0], vDeployments |-> <<>>,
     llmqTypeChainLocks |-> "LLMQ_NONE", llmqTypeDIP0024InstantSend |-> "LLMQ_NONE",
     llmqTypePlatform |-> "LLMQ_NONE", llmqTypeMnhf |-> "LLMQ_NONE",
     nSuperblockMaturityWindow |-> 0]

\* the object a constructor has built before it reads any override: the
\* catalog, the deployment table, the four quorum roles and the superblock
\* maturity window of the profile
BaseParams(chain) ==
    [strNetworkID |-> chain,
     llmqs        |-> BaseLLMQs(chain),
     vDeployments |-> BaseDeployments(chain),
     llmqTypeChainLocks |->
        CASE chain \in {"main", "test"} -> "LLMQ_400_60"
          [] chain = "devnet"           -> "LLMQ_DEVNET"
          [] chain = "regtest"          -> "LLMQ_TEST",
     llmqTypeDIP0024InstantSend |->
        CASE chain \in {"main", "test"} -> "LLMQ_60_75"
          [] chain = "devnet"           -> "LLMQ_DEVNET_DIP0024"
          [] chain = "regtest"          -> "LLMQ_TEST_DIP0024",
     llmqTypePlatform |->
        CASE chain \in {"main", "test"} -> "LLMQ_100_67"
          [] chain = "devnet"           -> "LLMQ_DEVNET_PLATFORM"
          [] chain = "regtest"          -> "LLMQ_TEST_PLATFORM",
     llmqTypeMnhf |->
        CASE chain \in {"main", "test"} -> "LLMQ_400_85"
          [] chain = "devnet"           -> "LLMQ_DEVNET"
          [] chain = "regtest"          -> "LLMQ_TEST",
     nSuperblockMaturityWindow |->
        CASE chain = "main"    -> 1200 * 3
          [] chain = "test"    -> 10
          [] chain = "devnet"  -> 8
          [] chain = "regtest" -> 120]

RECURSIVE LLMQTypeNamed(_, _, _, _)
\* the loop "for params in consensus.llmqs: if params.second.name ==
\* strLLMQType then llmqType = params.second.type" from the i-th key on
LLMQTypeNamed(llmqs, strLLMQType, i, llmqType) ==
    IF i > Len(LLMQTypeOrder) THEN llmqType
    ELSE LLMQTypeNamed(llmqs, strLLMQType, i + 1,
            IF /\ LLMQTypeOrder[i] \in DOMAIN llmqs
               /\ llmqs[LLMQTypeOrder[i]].name = strLLMQType
            THEN llmqs[LLMQTypeOrder[i]].type
            ELSE llmqType)

\* a record named strLLMQType is stored and its useRotation flag is rotation
NamedWithRotation(llmqs, strLLMQType, rotation) ==
    \E t \in DOMAIN llmqs :
        llmqs[t].name = strLLMQType /\ llmqs[t].useRotation = rotation

\* CDevNetParams::UpdateDevnetLLMQChainLocksFromArgs
UpdateDevnetLLMQChainLocksFromArgs(r, args) ==
    IF ~r.ok \/ args.llmqchainlocks = Unset THEN r
    ELSE IF NamedWithRotation(r.params.llmqs, args.llmqchainlocks, TRUE)
        THEN Thrown("LLMQ type specified for -llmqchainlocks must NOT use rotation", r.params)
    ELSE IF LLMQTypeNamed(r.params.llmqs, args.llmqchainlocks, 1, "LLMQ_NONE") = "LLMQ_NONE"
        THEN Thrown("Invalid LLMQ type specified for -llmqchainlocks.", r.params)
    ELSE Constructed([r.params EXCEPT !.llmqTypeChainLocks =
            LLMQTypeNamed(r.params.llmqs, args.llmqchainlocks, 1, "LLMQ_NONE")])

\* CDevNetParams::UpdateDevnetLLMQInstantSendDIP0024FromArgs
UpdateDevnetLLMQInstantSendDIP0024FromArgs(r, args) ==
    IF ~r.ok \/ args.llmqinstantsenddip0024 = Unset THEN r
    ELSE IF NamedWithRotation(r.params.llmqs, args.llmqinstantsenddip0024, FALSE)
        THEN Thrown("LLMQ type specified for -llmqinstantsenddip0024 must use rotation", r.params)
    ELSE IF LLMQTypeNamed(r.params.llmqs, args.llmqinstantsenddip0024, 1, "LLMQ_NONE") = "LLMQ_NONE"
        THEN Thrown("Invalid LLMQ type specified for -llmqinstantsenddip0024.", r.params)
    ELSE Constructed([r.params EXCEPT !.llmqTypeDIP0024InstantSend =
            LLMQTypeNamed(r.params.llmqs, args.llmqinstantsenddip0024, 1, "LLMQ_NONE")])

\* CDevNetParams::UpdateDevnetLLMQPlatformFromArgs: the loop tests the name only
UpdateDevnetLLMQPlatformFromArgs(r, args) ==
    IF ~r.ok \/ args.llmqplatform = Unset THEN r
    ELSE IF LLMQTypeNamed(r.params.llmqs, args.llmqplatform, 1, "LLMQ_NONE") = "LLMQ_NONE"
        THEN Thrown("Invalid LLMQ type specified for -llmqplatform.", r.params)
    ELSE Constructed([r.params EXCEPT !.llmqTypePlatform =
            LLMQTypeNamed(r.params.llmqs, args.llmqplatform, 1, "LLMQ_NONE")])

\* CDevNetParams::UpdateDevnetLLMQMnhfFromArgs: the loop tests the name only
UpdateDevnetLLMQMnhfFromArgs(r, args) ==
    IF ~r.ok \/ args.llmqmnhf = Unset THEN r
    ELSE IF LLMQTypeNamed(r.params.llmqs, args.llmqmnhf, 1, "LLMQ_NONE") = "LLMQ_NONE"
        THEN Thrown("Invalid LLMQ type specified for -llmqmnhf.", r.params)
    ELSE Constructed([r.params EXCEPT !.llmqTypeMnhf =
            LLMQTypeNamed(r.params.llmqs, args.llmqmnhf, 1, "LLMQ_NONE")])

\* CRegTestParams::UpdateLLMQInstantSendDIP0024FromArgs: the loop tests the
\* name only
UpdateLLMQInstantSendDIP0024FromArgs(r, args) ==
    IF ~r.ok \/ args.llmqtestinstantsenddip0024 = Unset THEN r
    ELSE IF LLMQTypeNamed(r.params.llmqs, args.llmqtestinstantsenddip0024, 1, "LLMQ_NONE") = "LLMQ_NONE"
        THEN Thrown("Invalid LLMQ type specified for -llmqtestinstantsenddip0024.", r.params)
    ELSE Constructed([r.params EXCEPT !.llmqTypeDIP0024InstantSend =
            LLMQTypeNamed(r.params.llmqs, args.llmqtestinstantsenddip0024, 1, "LLMQ_NONE")])

\* CDevNetParams(args): the quorum-role overrides are read in this order.
\* The devnet name is taken as set: FindDevNetGenesisBlock asserts it.
CDevNetParams(args) ==
    UpdateDevnetLLMQMnhfFromArgs(
        UpdateDevnetLLMQPlatformFromArgs(
            UpdateDevnetLLMQInstantSendDIP0024FromArgs(
                UpdateDevnetLLMQChainLocksFromArgs(
                    Constructed(BaseParams("devnet")), args), args), args), args)

\* CRegTestParams(args): -vbparams is read before the catalog is filled, the
\* quorum-role override after it
CRegTestParams(args) ==
    UpdateLLMQInstantSendDIP0024FromArgs(
        UpdateActivationParametersFromArgs(
            Constructed(BaseParams("regtest")), args.vbparams), args)

\* CreateChainParams with every constructor reading overrides
CreateChainParams_OverridesEverywhere(args, chain) ==
    IF chain \in {"main", "test"}
        THEN UpdateActivationParametersFromArgs(Constructed(BaseParams(chain)),
                                                args.vbparams)
    ELSE IF chain = "devnet" THEN CDevNetParams(args)
    ELSE IF chain = "regtest" THEN CRegTestParams(args)
    ELSE Thrown("CreateChainParams: Unknown chain", NullParams)

\* CreateChainParams with an unknown chain built as the Main profile
CreateChainParams_DefaultMain(args, chain) ==
    IF chain = "test" THEN Constructed(BaseParams("test"))
    ELSE IF chain = "devnet" THEN CDevNetParams(args)
    ELSE IF chain = "regtest" THEN CRegTestParams(args)
    ELSE Constructed(BaseParams("main"))

\* CreateChainParams(args, chain): CMainParams and CTestNetParams take no
\* arguments; an unknown chain throws
CreateChainParams(args, chain) ==
    IF chain = "main" THEN Constructed(BaseParams("main"))
    ELSE IF chain = "test" THEN Constructed(BaseParams("test"))
    ELSE IF chain = "devnet" THEN CDevNetParams(args)
    ELSE IF chain = "regtest" THEN CRegTestParams(args)
    ELSE Thrown("CreateChainParams: Unknown chain", NullParams)

\* the worker threads that call UpdateLLMQParams concurrently
Threads == {"t1", "t2"}

\* a worker thread that has not called UpdateLLMQParams: pc is the statement
\* the thread is at, base the adaptation state when the first worker started
\* and pre the catalog the thread found
IdleThread ==
    [pc |-> "idle", totalMnCount |-> 0, height |-> 0, stored |-> 0,
     base |-> <<>>, pre |-> <<>>]

NoCall ==
    [op |-> "none", arg |-> "", args |-> NoArgs, error |-> "",
     totalMnCount |-> 0, height |-> 0, branch |-> "",
     nBit |-> 0, timePast |-> 0, result |-> FALSE, record |-> Nullopt,
     observed |-> <<>>,
     sentinel |-> FALSE, guarded |-> FALSE, repeat |-> FALSE]

Init ==
    /\ globalChainParams = NullParams
    /\ lastCheckMnCount = 0
    /\ lastCheckHeight = -1
    /\ call = NoCall
    /\ aborted = FALSE
    /\ threads = [t \in Threads |-> IdleThread]

\* SelectParams that also puts the last-checked variables back to their
\* initial values
SelectParams_ResetsLastCheck(network, args) ==
    /\ ~aborted
    /\ LET r == CreateChainParams(args, network)
       IN  /\ globalChainParams' = IF r.ok THEN r.params ELSE globalChainParams
           /\ call' = [NoCall EXCEPT !.op = "SelectParams", !.arg = network,
                          !.args = args, !.error = r.error,
                          !.branch = IF r.ok THEN "ok" ELSE "throw"]
    /\ lastCheckMnCount' = 0
    /\ lastCheckHeight' = -1
    /\ UNCHANGED <<aborted, threads>>

\* SelectParams(network) with the command line args: when CreateChainParams
\* throws, the assignment to globalChainParams is not reached
SelectParams(network, args) ==
    /\ ~aborted
    /\ LET r == CreateChainParams(args, network)
       IN  /\ globalChainParams' = IF r.ok THEN r.params ELSE globalChainParams
           /\ call' = [NoCall EXCEPT !.op = "SelectParams", !.arg = network,
                          !.args = args, !.error = r.error,
                          !.branch = IF r.ok THEN "ok" ELSE "throw"]
    /\ UNCHANGED <<lastCheckMnCount, lastCheckHeight, aborted, threads>>

\* Params without the assert: the empty handle is dereferenced and returned
Params_NoAssert ==
    /\ ~aborted
    /\ call' = [NoCall EXCEPT !.op = "Params", !.branch = "return",
                   !.arg = globalChainParams.strNetworkID]
    /\ UNCHANGED <<globalChainParams, lastCheckMnCount, lastCheckHeight, aborted, threads>>

\* Params(): the assert aborts the process while nothing is selected;
\* call.arg is the network of the object returned
Params ==
    /\ ~aborted
    /\ IF globalChainParams # NullParams THEN
           /\ call' = [NoCall EXCEPT !.op = "Params", !.branch = "return",
                          !.arg = globalChainParams.strNetworkID]
           /\ UNCHANGED aborted
       ELSE
           /\ call' = [NoCall EXCEPT !.op = "Params", !.branch = "assert"]
           /\ aborted' = TRUE
    /\ UNCHANGED <<globalChainParams, lastCheckMnCount, lastCheckHeight, threads>>

\* Params().GetLLMQ(llmqType) on the selected parameters; call.record is the
\* optional returned
GetLLMQ(llmqType) ==
    /\ ~aborted
    /\ globalChainParams # NullParams
    /\ call' = [NoCall EXCEPT !.op = "GetLLMQ", !.arg = llmqType, !.branch = "return",
                   !.record = GetLLMQFrom(globalChainParams.llmqs, 1, llmqType)]
    /\ UNCHANGED <<globalChainParams, lastCheckMnCount, lastCheckHeight, aborted, threads>>

-----------------------------------------------------------------------------
(* Quorum adaptation engine *)

\* the int remainder of C++ (truncated towards zero), for b > 0
CRem(a, b) == IF a >= 0 THEN a % b ELSE 0 - ((0 - a) % b)

\* IsMiningPhase with the end of the window excluded
IsMiningPhase_ExclusiveEnd(params, nHeight) ==
    LET phaseIndex == CRem(nHeight, params.dkgInterval)
    IN  phaseIndex >= params.dkgMiningWindowStart /\ phaseIndex < params.dkgMiningWindowEnd

IsMiningPhase(params, nHeight) ==
    LET phaseIndex == CRem(nHeight, params.dkgInterval)
    IN  phaseIndex >= params.dkgMiningWindowStart /\ phaseIndex <= params.dkgMiningWindowEnd

\* IsLLMQsMiningPhase over the catalog llmqs
IsLLMQsMiningPhase(llmqs, nHeight) ==
    \E t \in DOMAIN llmqs : IsMiningPhase(llmqs[t], nHeight)

\* TierRecords with the 60-75 upgrade taken at 2000 already
TierRecords_Upgrade2000(isTestNet, totalMnCount) ==
    IF (totalMnCount < 80 /\ isTestNet) \/ (totalMnCount < 100 /\ ~isTestNet) THEN
        [LLMQ_50_60 |-> "llmq_10_60", LLMQ_60_75 |-> "llmq_10_75",
         LLMQ_400_60 |-> "llmq_20_60", LLMQ_400_85 |-> "llmq_20_85"]
    ELSE IF totalMnCount < 200 THEN
        [LLMQ_50_60 |-> "llmq_50_60", LLMQ_60_75 |-> "llmq_10_75",
         LLMQ_400_60 |-> "llmq_40_60", LLMQ_400_85 |-> "llmq_40_85"]
    ELSE IF totalMnCount < 600 THEN
        [LLMQ_50_60 |-> "llmq_50_60", LLMQ_60_75 |-> "llmq_20_75",
         LLMQ_400_60 |-> "llmq_40_60", LLMQ_400_85 |-> "llmq_40_85"]
    ELSE
        [LLMQ_50_60 |-> "llmq_50_60",
         LLMQ_60_75 |-> IF totalMnCount >= 2000 THEN "llmq_60_75" ELSE "llmq_20_75",
         LLMQ_400_60 |-> "llmq_400_60", LLMQ_400_85 |-> "llmq_400_85"]

\* the records the Updated branch stores for totalMnCount
TierRecords(isTestNet, totalMnCount) ==
    IF (totalMnCount < 80 /\ isTestNet) \/ (totalMnCount < 100 /\ ~isTestNet) THEN
        [LLMQ_50_60 |-> "llmq_10_60", LLMQ_60_75 |-> "llmq_10_75",
         LLMQ_400_60 |-> "llmq_20_60", LLMQ_400_85 |-> "llmq_20_85"]
    ELSE IF totalMnCount < 200 THEN
        [LLMQ_50_60 |-> "llmq_50_60", LLMQ_60_75 |-> "llmq_10_75",
         LLMQ_400_60 |-> "llmq_40_60", LLMQ_400_85 |-> "llmq_40_85"]
    ELSE IF totalMnCount < 600 THEN
        [LLMQ_50_60 |-> "llmq_50_60", LLMQ_60_75 |-> "llmq_20_75",
         LLMQ_400_60 |-> "llmq_40_60", LLMQ_400_85 |-> "llmq_40_85"]
    ELSE
        [LLMQ_50_60 |-> "llmq_50_60",
         LLMQ_60_75 |-> IF totalMnCount > 2000 THEN "llmq_60_75" ELSE "llmq_20_75",
         LLMQ_400_60 |-> "llmq_400_60", LLMQ_400_85 |-> "llmq_400_85"]

\* Store assigning the name of the record to the stored record's name field
\* and leaving its other fields
Store_NameOnly(llmqs, type, name) ==
    [t \in DOMAIN llmqs \cup {type} |->
        IF t # type THEN llmqs[t]
        ELSE IF t \in DOMAIN llmqs THEN [llmqs[t] EXCEPT !.name = name]
        ELSE LLMQParams(name)]

\* consensus.llmqs[type] = record: operator[] of std::map inserts a missing key
Store(llmqs, type, name) ==
    [t \in DOMAIN llmqs \cup {type} |-> IF t = type THEN LLMQParams(name) ELSE llmqs[t]]

\* UpdateGuard without the height comparison
UpdateGuard_NoHeight(llmqs, lastHeight, lastCount, totalMnCount, height) ==
    \/ /\ lastCount # totalMnCount
       /\ ~IsLLMQsMiningPhase(llmqs, height)
    \/ lastHeight = -1

\* UpdateGuard with the negation of the mining-phase test forgotten
UpdateGuard_InMining(llmqs, lastHeight, lastCount, totalMnCount, height) ==
    \/ /\ lastHeight < height
       /\ lastCount # totalMnCount
       /\ IsLLMQsMiningPhase(llmqs, height)
    \/ lastHeight = -1

\* UpdateGuard accepting every height other than the last-checked one
UpdateGuard_OtherHeight(llmqs, lastHeight, lastCount, totalMnCount, height) ==
    \/ /\ lastHeight # height
       /\ lastCount # totalMnCount
       /\ ~IsLLMQsMiningPhase(llmqs, height)
    \/ lastHeight = -1

\* the guard of UpdateLLMQParams
UpdateGuard(llmqs, lastHeight, lastCount, totalMnCount, height) ==
    \/ /\ lastHeight < height
       /\ lastCount # totalMnCount
       /\ ~IsLLMQsMiningPhase(llmqs, height)
    \/ lastHeight = -1

\* UpdatedLLMQs without the store of the 400-85 record
UpdatedLLMQs_No40085(llmqs, isTestNet, totalMnCount) ==
    LET r == TierRecords(isTestNet, totalMnCount)
    IN  Store(Store(Store(llmqs, "LLMQ_50_60", r.LLMQ_50_60),
                    "LLMQ_60_75", r.LLMQ_60_75),
              "LLMQ_400_60", r.LLMQ_400_60)

\* the catalog after the Updated branch
UpdatedLLMQs(llmqs, isTestNet, totalMnCount) ==
    LET r == TierRecords(isTestNet, totalMnCount)
    IN  Store(Store(Store(Store(llmqs, "LLMQ_50_60", r.LLMQ_50_60),
                          "LLMQ_60_75", r.LLMQ_60_75),
                    "LLMQ_400_60", r.LLMQ_400_60),
              "LLMQ_400_85", r.LLMQ_400_85)

\* SkippedLLMQs storing the whole smallest tier instead of the 60-75 record
SkippedLLMQs_AllRoles(llmqs, totalMnCount) ==
    IF totalMnCount < 80
    THEN Store(Store(Store(Store(llmqs, "LLMQ_50_60", "llmq_10_60"),
                           "LLMQ_60_75", "llmq_10_75"),
                     "LLMQ_400_60", "llmq_20_60"),
               "LLMQ_400_85", "llmq_20_85")
    ELSE llmqs

\* SkippedLLMQs storing the 60-75 record of the wrong tier
SkippedLLMQs_WrongRecord(llmqs, totalMnCount) ==
    IF totalMnCount < 80 THEN Store(llmqs, "LLMQ_60_75", "llmq_20_75") ELSE llmqs

\* SkippedLLMQs putting the large 60-75 record back for the other counts
SkippedLLMQs_Restores(llmqs, totalMnCount) ==
    IF totalMnCount < 80 THEN Store(llmqs, "LLMQ_60_75", "llmq_10_75")
    ELSE Store(llmqs, "LLMQ_60_75", "llmq_60_75")

\* the catalog after the Skipped branch
SkippedLLMQs(llmqs, totalMnCount) ==
    IF totalMnCount < 80 THEN Store(llmqs, "LLMQ_60_75", "llmq_10_75") ELSE llmqs

\* IsExcludedNetwork with the REGTEST comparison left out
IsExcludedNetwork_DevnetOnly(strNetworkID) ==
    strNetworkID = "devnet"

\* the early return of UpdateLLMQParams: DEVNET and REGTEST are not adapted
IsExcludedNetwork(strNetworkID) ==
    strNetworkID = "devnet" \/ strNetworkID = "regtest"

\* dereferencing globalChainParams requires a selected profile
UpdateLLMQParams(totalMnCount, height) ==
    /\ ~aborted
    /\ globalChainParams # NullParams
    /\ LET p == globalChainParams
           isTestNet == p.strNetworkID = "test"
           ghost == [NoCall EXCEPT !.op = "UpdateLLMQParams",
                        !.totalMnCount = totalMnCount, !.height = height,
                        !.sentinel = (lastCheckHeight = -1),
                        !.guarded = /\ lastCheckHeight < height
                                    /\ lastCheckMnCount # totalMnCount
                                    /\ ~IsLLMQsMiningPhase(p.llmqs, height),
                        !.repeat = /\ call.op = "UpdateLLMQParams"
                                   /\ call.totalMnCount = totalMnCount
                                   /\ call.height = height]
       IN  IF IsExcludedNetwork(p.strNetworkID) THEN
               /\ call' = [NoCall EXCEPT !.op = "UpdateLLMQParams",
                              !.totalMnCount = totalMnCount, !.height = height,
                              !.branch = "Return"]
               /\ UNCHANGED <<globalChainParams, lastCheckMnCount, lastCheckHeight>>
           ELSE IF UpdateGuard(p.llmqs, lastCheckHeight, lastCheckMnCount,
                               totalMnCount, height) THEN
               /\ lastCheckMnCount' = totalMnCount
               /\ lastCheckHeight' = height
               /\ globalChainParams' =
                     [p EXCEPT !.llmqs = UpdatedLLMQs(p.llmqs, isTestNet, totalMnCount)]
               /\ call' = [ghost EXCEPT !.branch = "Updated"]
           ELSE
               /\ globalChainParams' =
                     [p EXCEPT !.llmqs = SkippedLLMQs(p.llmqs, totalMnCount)]
               /\ call' = [ghost EXCEPT !.branch = "Skipped"]
               /\ UNCHANGED <<lastCheckMnCount, lastCheckHeight>>
    /\ UNCHANGED <<aborted, threads>>

-----------------------------------------------------------------------------
(* UpdateLLMQParams called from several threads *)

\* the assignments to consensus.llmqs of the Updated branch, as <<type, record>>
\* pairs in the order the source makes them
TierStores(isTestNet, totalMnCount) ==
    IF (totalMnCount < 80 /\ isTestNet) \/ (totalMnCount < 100 /\ ~isTestNet) THEN
        << <<"LLMQ_50_60", "llmq_10_60">>, <<"LLMQ_60_75", "llmq_10_75">>,
           <<"LLMQ_400_60", "llmq_20_60">>, <<"LLMQ_400_85", "llmq_20_85">> >>
    ELSE IF totalMnCount < 200 THEN
        << <<"LLMQ_50_60", "llmq_50_60">>, <<"LLMQ_60_75", "llmq_10_75">>,
           <<"LLMQ_400_60", "llmq_40_60">>, <<"LLMQ_400_85", "llmq_40_85">> >>
    ELSE IF totalMnCount < 600 THEN
        << <<"LLMQ_50_60", "llmq_50_60">>, <<"LLMQ_60_75", "llmq_20_75">>,
           <<"LLMQ_400_60", "llmq_40_60">>, <<"LLMQ_400_85", "llmq_40_85">> >>
    ELSE IF totalMnCount > 2000 THEN
        << <<"LLMQ_50_60", "llmq_50_60">>, <<"LLMQ_400_60", "llmq_400_60">>,
           <<"LLMQ_400_85", "llmq_400_85">>, <<"LLMQ_60_75", "llmq_20_75">>,
           <<"LLMQ_60_75", "llmq_60_75">> >>
    ELSE
        << <<"LLMQ_50_60", "llmq_50_60">>, <<"LLMQ_400_60", "llmq_400_60">>,
           <<"LLMQ_400_85", "llmq_400_85">>, <<"LLMQ_60_75", "llmq_20_75">> >>

\* lastCheckMnCount, lastCheckHeight and the catalog: what UpdateLLMQParams
\* reads and writes
AdaptationState ==
    [llmqs            |-> globalChainParams.llmqs,
     lastCheckMnCount |-> lastCheckMnCount,
     lastCheckHeight  |-> lastCheckHeight]

\* the step every statement of a worker thread records in call
ThreadStep == [NoCall EXCEPT !.op = "UpdateLLMQParams (thread)"]

\* thread t enters UpdateLLMQParams(totalMnCount, height): the early return
\* and the evaluation of the guard.  No lock is taken: the statements of the
\* branch chosen here run one at a time, interleaved with the other threads.
UpdateLLMQParams_Guard(t, totalMnCount, height) ==
    /\ ~aborted
    /\ globalChainParams # NullParams
    /\ threads[t].pc = "idle"
    /\ LET p == globalChainParams
           started == {u \in Threads : threads[u].pc # "idle"}
           pc == IF IsExcludedNetwork(p.strNetworkID) THEN "done"
                 ELSE IF UpdateGuard(p.llmqs, lastCheckHeight, lastCheckMnCount,
                                     totalMnCount, height)
                     THEN "lastCheckMnCount"
                 ELSE IF totalMnCount < 80 THEN "else"
                 ELSE "done"
       IN  threads' = [threads EXCEPT ![t] =
               [pc |-> pc, totalMnCount |-> totalMnCount, height |-> height,
                stored |-> 0,
                base |-> IF started = {} THEN AdaptationState
                         ELSE threads[CHOOSE u \in started : TRUE].base,
                pre |-> p.llmqs]]
    /\ call' = ThreadStep
    /\ UNCHANGED <<globalChainParams, lastCheckMnCount, lastCheckHeight, aborted>>

\* lastCheckMnCount = totalMnCount
UpdateLLMQParams_WriteMnCount(t) ==
    /\ threads[t].pc = "lastCheckMnCount"
    /\ lastCheckMnCount' = threads[t].totalMnCount
    /\ threads' = [threads EXCEPT ![t].pc = "lastCheckHeight"]
    /\ call' = ThreadStep
    /\ UNCHANGED <<globalChainParams, lastCheckHeight, aborted>>

\* lastCheckHeight = height
UpdateLLMQParams_WriteHeight(t) ==
    /\ threads[t].pc = "lastCheckHeight"
    /\ lastCheckHeight' = threads[t].height
    /\ threads' = [threads EXCEPT ![t].pc = "store"]
    /\ call' = ThreadStep
    /\ UNCHANGED <<globalChainParams, lastCheckMnCount, aborted>>

\* the next consensus.llmqs[type] = record assignment of the tier
UpdateLLMQParams_Store(t) ==
    /\ threads[t].pc = "store"
    /\ LET stores == TierStores(globalChainParams.strNetworkID = "test",
                                threads[t].totalMnCount)
           next == stores[threads[t].stored + 1]
       IN  /\ globalChainParams' =
                 [globalChainParams EXCEPT !.llmqs = Store(@, next[1], next[2])]
           /\ threads' = [threads EXCEPT
                 ![t].stored = @ + 1,
                 ![t].pc = IF threads[t].stored + 1 = Len(stores) THEN "done" ELSE "store"]
    /\ call' = ThreadStep
    /\ UNCHANGED <<lastCheckMnCount, lastCheckHeight, aborted>>

\* the assignment of the else branch, reached with totalMnCount < 80
UpdateLLMQParams_ElseStore(t) ==
    /\ threads[t].pc = "else"
    /\ globalChainParams' =
          [globalChainParams EXCEPT !.llmqs = Store(@, "LLMQ_60_75", "llmq_10_75")]
    /\ threads' = [threads EXCEPT ![t].pc = "done"]
    /\ call' = ThreadStep
    /\ UNCHANGED <<lastCheckMnCount, lastCheckHeight, aborted>>

\* IsLLMQsMiningPhase(nHeight) called by one more thread: the loop over
\* consensus.llmqs takes no lock either; call.observed is the catalog it saw
ReadIsLLMQsMiningPhase(nHeight) ==
    /\ ~aborted
    /\ globalChainParams # NullParams
    /\ call' = [NoCall EXCEPT !.op = "IsLLMQsMiningPhase", !.height = nHeight,
                   !.result = IsLLMQsMiningPhase(globalChainParams.llmqs, nHeight),
                   !.observed = globalChainParams.llmqs]
    /\ UNCHANGED <<globalChainParams, lastCheckMnCount, lastCheckHeight, aborted, threads>>

-----------------------------------------------------------------------------
(* Masternode activation query *)

\* CChainParams::IsValidMNActivation on the selected parameters: the assert
\* aborts the process, otherwise the loop decides and no state is written
IsValidMNActivation(nBit, timePast) ==
    /\ ~aborted
    /\ globalChainParams # NullParams
    /\ IF nBit < VERSIONBITS_NUM_BITS THEN
           /\ call' = [NoCall EXCEPT !.op = "IsValidMNActivation", !.nBit = nBit,
                          !.timePast = timePast, !.branch = "return",
                          !.result = IsValidMNActivationFrom(
                                        globalChainParams.vDeployments, 1, nBit, timePast)]
           /\ UNCHANGED aborted
       ELSE
           /\ call' = [NoCall EXCEPT !.op = "IsValidMNActivation", !.nBit = nBit,
                          !.timePast = timePast, !.branch = "assert"]
           /\ aborted' = TRUE
    /\ UNCHANGED <<globalChainParams, lastCheckMnCount, lastCheckHeight, threads>>

-----------------------------------------------------------------------------
(* Devnet genesis block search *)

\* the width of nNonce, scaled down from the 32 bits of uint32_t
NonceBits == 3

\* the largest value of nNonce
UINT32_MAX == 2 ^ NonceBits - 1

Nonces == 0 .. UINT32_MAX

\* the for loop from nNonce on; satisfying is the set of nonces for which
\* UintToArith256(block.GetHash()) <= bnTarget.  The loop condition is
\* nNonce < UINT32_MAX; leaving the loop reaches assert(false).
RECURSIVE FindDevNetGenesisBlockFrom(_, _)
FindDevNetGenesisBlockFrom(satisfying, nNonce) ==
    IF nNonce < UINT32_MAX THEN
        IF nNonce \in satisfying THEN [found |-> TRUE, nNonce |-> nNonce]
        ELSE FindDevNetGenesisBlockFrom(satisfying, (nNonce + 1) % 2 ^ NonceBits)
    ELSE [found |-> FALSE, nNonce |-> nNonce]

\* FindDevNetGenesisBlock for a devnet name and previous block whose hashes
\* satisfy the target at the nonces in satisfying: call.nNonce is the nonce
\* of the block returned, call.tried the number of hashes computed
FindDevNetGenesisBlock(satisfying) ==
    /\ ~aborted
    /\ LET r == FindDevNetGenesisBlockFrom(satisfying, 0)
       IN  /\ call' = [satisfying |-> satisfying, nNonce |-> r.nNonce,
                       tried |-> IF r.found THEN r.nNonce + 1 ELSE r.nNonce]
                      @@ [NoCall EXCEPT !.op = "FindDevNetGenesisBlock",
                             !.branch = IF r.found THEN "return" ELSE "assert"]
           /\ aborted' = ~r.found
    /\ UNCHANGED <<globalChainParams, lastCheckMnCount, lastCheckHeight, threads>>

-----------------------------------------------------------------------------
(* Specifications *)

\* bits asked of IsValidMNActivation: the configured ones, unconfigured ones
\* below VERSIONBITS_NUM_BITS, and ones at and above it
Bits == {-1, 0, 9, 10, 28, 29, 30}

Times == -1 .. MaxTime

\* profile selection without overrides and quorum adaptation
Next ==
    \/ \E network \in Selectors : SelectParams(network, NoArgs)
    \/ \E totalMnCount \in Counts, height \in Heights :
          UpdateLLMQParams(totalMnCount, height)

Spec == Init /\ [][Next]_vars

\* profile selection under -vbparams overrides and activation queries; the
\* overrides are enumerated for the one profile that reads them
NextMN ==
    \/ \E network \in Selectors :
          \E args \in (IF network = "regtest" THEN VbParams ELSE {NoArgs}) :
              SelectParams(network, args)
    \/ \E nBit \in Bits, timePast \in Times : IsValidMNActivation(nBit, timePast)

SpecMN == Init /\ [][NextMN]_vars

\* masternode counts of the five tiers, 79 being below both smallest-tier
\* thresholds
QueryCounts == {79, 100, 200, 600, 2001}

\* profile selection, quorum adaptation and the two lookups
NextSel ==
    \/ \E network \in Selectors : SelectParams(network, NoArgs)
    \/ \E totalMnCount \in QueryCounts, height \in Heights :
          UpdateLLMQParams(totalMnCount, height)
    \/ \E llmqType \in LLMQTypes : GetLLMQ(llmqType)
    \/ Params

SpecSel == Init /\ [][NextSel]_vars

\* the numbers of fields tried in one -vbparams string
VbSizes == {3, 4, 5, 8}

\* the text put in one field in place of its number: -1 and a letter
VbSpecials == {FormatInt(-1), <<"x">>}

\* a -vbparams string of size fields for name: field i holds the number
\* 10 + i, except that field special (if above 1) holds the text token
VbString(name, size, special, token) ==
    JoinFields([i \in 1 .. size |->
                  IF i = 1 THEN name
                  ELSE IF i = special THEN token
                  ELSE FormatInt(10 + i)])

\* command lines with one -vbparams string: for testdummy with every field in
\* turn special; for mn_rr and for an unknown name with the last field special
VbSingles ==
    {[NoArgs EXCEPT !.vbparams =
          <<VbString(VersionBitsDeploymentInfo[DEPLOYMENT_TESTDUMMY], size, special, token)>>] :
        size \in VbSizes, special \in 1 .. 8, token \in VbSpecials}
    \cup
    {[NoArgs EXCEPT !.vbparams = <<VbString(name, size, special, FormatInt(-1))>>] :
        name \in {VersionBitsDeploymentInfo[DEPLOYMENT_MN_RR], <<"b", "o", "g", "u", "s">>},
        size \in VbSizes, special \in {1, 8}}

\* command lines with two -vbparams strings that name different deployments,
\* the v20 one good (3 fields) or malformed (4 fields)
VbPairs ==
    {[NoArgs EXCEPT !.vbparams =
          <<VbString(VersionBitsDeploymentInfo[DEPLOYMENT_TESTDUMMY], 5, 1, <<>>),
            VbString(VersionBitsDeploymentInfo[DEPLOYMENT_V20], size, 1, <<>>)>>] :
        size \in {3, 4}}
    \cup
    {[NoArgs EXCEPT !.vbparams =
          <<VbString(VersionBitsDeploymentInfo[DEPLOYMENT_V20], size, 1, <<>>),
            VbString(VersionBitsDeploymentInfo[DEPLOYMENT_MN_RR], 8, 1, <<>>)>>] :
        size \in {3, 4}}

VbArgs == VbSingles \cup VbPairs \cup {NoArgs}

\* profile selection under -vbparams strings, well-formed and malformed; the
\* profiles that do not read -vbparams are selected with and without one
NextVb ==
    \E network \in Selectors :
        \E args \in (IF network = "regtest" THEN VbArgs
                     ELSE {NoArgs, CHOOSE a \in VbPairs : TRUE}) :
            SelectParams(network, args)

SpecVb == Init /\ [][NextVb]_vars

\* command lines for Dev: each quorum-role option unset or naming a record,
\* llmq_50_60 without rotation, llmq_60_75 with rotation, bogus not stored
DevnetRoleArgs ==
    {[NoArgs EXCEPT !.llmqchainlocks = chainlocks,
                    !.llmqinstantsenddip0024 = instantsend,
                    !.llmqplatform = platform,
                    !.llmqmnhf = mnhf] :
        chainlocks \in {Unset, "llmq_50_60", "llmq_60_75", "bogus"},
        instantsend \in {Unset, "llmq_60_75", "llmq_50_60", "bogus"},
        platform \in {Unset, "llmq_60_75", "bogus"},
        mnhf \in {Unset, "llmq_60_75"}}

\* command lines for Regtest: the one quorum-role option unset or naming a
\* record, llmq_test without rotation, llmq_test_dip0024 with rotation
RegtestRoleArgs ==
    {[NoArgs EXCEPT !.llmqtestinstantsenddip0024 = instantsend] :
        instantsend \in {Unset, "llmq_test", "llmq_test_dip0024", "bogus"}}

\* command lines for the profiles whose constructors take no arguments
MainTestArgs ==
    {NoArgs,
     [NoArgs EXCEPT !.vbparams = <<VbEntry(DEPLOYMENT_V20, 0, MaxTime - 1, 1)>>],
     [NoArgs EXCEPT !.vbparams = <<VbString(VersionBitsDeploymentInfo[DEPLOYMENT_V20], 4, 1, <<>>)>>],
     [NoArgs EXCEPT !.llmqchainlocks = "llmq_60_75", !.llmqplatform = "bogus"]}

\* profile selection under quorum-role overrides
NextRole ==
    \E network \in Selectors :
        \E args \in (IF network = "devnet" THEN DevnetRoleArgs
                     ELSE IF network = "regtest" THEN RegtestRoleArgs
                     ELSE MainTestArgs) :
            SelectParams(network, args)

SpecRole == Init /\ [][NextRole]_vars

\* counts and heights of the calls made while worker threads run
ConcCounts == {79, 2001}

ConcHeights == {0, 1}

\* no worker thread has entered UpdateLLMQParams yet
SingleThreaded == \A t \in Threads : threads[t].pc = "idle"

\* start-up on one thread (selection, a first adaptation), then one
\* UpdateLLMQParams call per worker thread and a reader, all unsynchronised
NextConc ==
    \/ SingleThreaded /\ \E network \in {"main", "test", "regtest"} :
          SelectParams(network, NoArgs)
    \/ SingleThreaded /\ \E height \in ConcHeights : UpdateLLMQParams(200, height)
    \/ \E t \in Threads, totalMnCount \in ConcCounts, height \in ConcHeights :
          UpdateLLMQParams_Guard(t, totalMnCount, height)
    \/ \E t \in Threads : UpdateLLMQParams_WriteMnCount(t)
    \/ \E t \in Threads : UpdateLLMQParams_WriteHeight(t)
    \/ \E t \in Threads : UpdateLLMQParams_Store(t)
    \/ \E t \in Threads : UpdateLLMQParams_ElseStore(t)
    \/ ReadIsLLMQsMiningPhase(0)

SpecConc == Init /\ [][NextConc]_vars

\* command lines of the process: none, a -vbparams entry, a quorum-role
\* override that is accepted on Dev and one that is refused
LifeArgs ==
    {NoArgs,
     [NoArgs EXCEPT !.vbparams = <<VbEntry(DEPLOYMENT_MN_RR, 0, MaxTime - 1, 1)>>],
     [NoArgs EXCEPT !.llmqplatform = "llmq_50_60"],
     [NoArgs EXCEPT !.llmqchainlocks = "bogus"]}

\* a count of the smallest tier and one of the fourth tier
LifeCounts == {79, 600}

LifeHeights == 0 .. 2

\* the whole single-threaded life of the process: selections (repeated, with
\* and without overrides), adaptation calls and every query
NextLife ==
    \/ \E network \in Selectors, args \in LifeArgs : SelectParams(network, args)
    \/ \E totalMnCount \in LifeCounts, height \in LifeHeights :
          UpdateLLMQParams(totalMnCount, height)
    \/ \E llmqType \in {"LLMQ_60_75", "LLMQ_100_67"} : GetLLMQ(llmqType)
    \/ \E nBit \in {10, 29}, timePast \in {0} : IsValidMNActivation(nBit, timePast)
    \/ \E nHeight \in LifeHeights : ReadIsLLMQsMiningPhase(nHeight)
    \/ Params

SpecLife == Init /\ [][NextLife]_vars

\* the largest block height asked of IsLLMQsMiningPhase: past one whole DKG
\* interval of every record
MaxPhaseHeight == 17

PhaseHeights == 0 .. MaxPhaseHeight

\* mining-phase queries on every profile's catalog, as constructed and as
\* adaptation calls have left it
NextPhase ==
    \/ \E network \in Selectors : SelectParams(network, NoArgs)
    \/ \E totalMnCount \in QueryCounts, height \in {0, 1, 4} :
          UpdateLLMQParams(totalMnCount, height)
    \/ \E nHeight \in PhaseHeights : ReadIsLLMQsMiningPhase(nHeight)

SpecPhase == Init /\ [][NextPhase]_vars

\* one selection at start-up, as the callers of SelectParams make it, and the
\* adaptation calls that follow it
NextOnce ==
    \/ /\ globalChainParams = NullParams
       /\ \E network \in Selectors : SelectParams(network, NoArgs)
    \/ \E totalMnCount \in Counts, height \in Heights :
          UpdateLLMQParams(totalMnCount, height)

SpecOnce == Init /\ [][NextOnce]_vars

\* the heights of blocks
ChainHeights == 0 .. MaxHeight

\* selections and adaptation calls made with block heights, in any order
\* (a reorganisation calls with a lower height)
NextChain ==
    \/ \E network \in Selectors : SelectParams(network, NoArgs)
    \/ \E totalMnCount \in QueryCounts, height \in ChainHeights :
          UpdateLLMQParams(totalMnCount, height)

SpecChain == Init /\ [][NextChain]_vars

\* one selection at start-up, then UpdateLLMQParams called once per block:
\* the first call at height 0, every later call at the height after the one
\* of the call before it, each with the masternode count of its block
NextBlocks ==
    \/ /\ globalChainParams = NullParams
       /\ \E network \in Selectors : SelectParams(network, NoArgs)
    \/ \E totalMnCount \in QueryCounts :
          LET height == IF call.op = "UpdateLLMQParams" THEN call.height + 1 ELSE 0
          IN  /\ height \in ChainHeights
              /\ UpdateLLMQParams(totalMnCount, height)

SpecBlocks == Init /\ [][NextBlocks]_vars

\* the genesis search over every hash landscape of the nonce space
NextGenesis ==
    \E satisfying \in SUBSET Nonces : FindDevNetGenesisBlock(satisfying)

SpecGenesis == Init /\ [][NextGenesis]_vars

-----------------------------------------------------------------------------
(* Properties of the quorum adaptation engine *)

\* the profile is one of the adapted (production) profiles
OnMainOrTest == globalChainParams.strNetworkID \in {"main", "test"}

\* call' records an UpdateLLMQParams invocation made by this step
UpdateStep == call'.op = "UpdateLLMQParams"

\* the names of the records stored under the four adapted roles
RoleNames(llmqs) == [t \in AdaptedTypes |-> llmqs[t].name]

\* the five tiers as the specification lists them
SpecTier(network, count) ==
    IF (network = "test" /\ count < 80) \/ (network = "main" /\ count < 100) THEN
        [t \in AdaptedTypes |->
            CASE t = "LLMQ_50_60" -> "llmq_10_60" [] t = "LLMQ_60_75" -> "llmq_10_75"
              [] t = "LLMQ_400_60" -> "llmq_20_60" [] t = "LLMQ_400_85" -> "llmq_20_85"]
    ELSE IF count < 200 THEN
        [t \in AdaptedTypes |->
            CASE t = "LLMQ_50_60" -> "llmq_50_60" [] t = "LLMQ_60_75" -> "llmq_10_75"
              [] t = "LLMQ_400_60" -> "llmq_40_60" [] t = "LLMQ_400_85" -> "llmq_40_85"]
    ELSE IF count < 600 THEN
        [t \in AdaptedTypes |->
            CASE t = "LLMQ_50_60" -> "llmq_50_60" [] t = "LLMQ_60_75" -> "llmq_20_75"
              [] t = "LLMQ_400_60" -> "llmq_40_60" [] t = "LLMQ_400_85" -> "llmq_40_85"]
    ELSE IF count <= 2000 THEN
        [t \in AdaptedTypes |->
            CASE t = "LLMQ_50_60" -> "llmq_50_60" [] t = "LLMQ_60_75" -> "llmq_20_75"
              [] t = "LLMQ_400_60" -> "llmq_400_60" [] t = "LLMQ_400_85" -> "llmq_400_85"]
    ELSE
        [t \in AdaptedTypes |->
            CASE t = "LLMQ_50_60" -> "llmq_50_60" [] t = "LLMQ_60_75" -> "llmq_60_75"
              [] t = "LLMQ_400_60" -> "llmq_400_60" [] t = "LLMQ_400_85" -> "llmq_400_85"]

\* C1 (as claimed): a call recomputes only if (a) height > lastCheckHeight or
\* lastCheckHeight is the sentinel -1, AND (b) count differs from
\* lastCheckMnCount, AND (c) height is in no registered quorum's mining window,
\* the very first call included.
C1_RecomputeOnlyIfAllGuards ==
    [][(UpdateStep /\ call'.branch = "Updated") =>
          /\ (lastCheckHeight < call'.height \/ lastCheckHeight = -1)
          /\ call'.totalMnCount # lastCheckMnCount
          /\ ~IsLLMQsMiningPhase(globalChainParams.llmqs, call'.height)]_vars

\* C1 (amended): a call recomputes only if lastCheckHeight is the sentinel -1
\* (then whatever the count and the mining phase are), or height >
\* lastCheckHeight, count differs from lastCheckMnCount and height is in no
\* registered quorum's mining window.
C1_RecomputeOnlyIfGuardOrSentinel ==
    [][(UpdateStep /\ call'.branch = "Updated") =>
          \/ lastCheckHeight = -1
          \/ /\ lastCheckHeight < call'.height
             /\ call'.totalMnCount # lastCheckMnCount
             /\ ~IsLLMQsMiningPhase(globalChainParams.llmqs, call'.height)]_vars

\* a recomputation made after the first one, through the three guards
C1_Witness ==
    /\ call.op = "UpdateLLMQParams" /\ call.branch = "Updated"
    /\ ~call.sentinel /\ call.guarded

\* C2: on Main/Test a call with lastCheckHeight < height, count different from
\* lastCheckMnCount and height outside every mining window of the catalog as it
\* is before the call takes the Updated branch: the four role records become
\* those of count's tier and the last-checked state becomes (count, height).
C2_GuardImpliesUpdated ==
    [][(/\ UpdateStep
        /\ OnMainOrTest
        /\ lastCheckHeight < call'.height
        /\ call'.totalMnCount # lastCheckMnCount
        /\ ~IsLLMQsMiningPhase(globalChainParams.llmqs, call'.height)) =>
          /\ call'.branch = "Updated"
          /\ RoleNames(globalChainParams'.llmqs) =
                SpecTier(globalChainParams.strNetworkID, call'.totalMnCount)
          /\ lastCheckMnCount' = call'.totalMnCount
          /\ lastCheckHeight' = call'.height]_vars

\* an Updated call made on a catalog that an earlier call had adapted, at a
\* height above the last-checked one and outside the mining windows
C2_Witness ==
    /\ call.op = "UpdateLLMQParams" /\ call.branch = "Updated"
    /\ ~call.sentinel /\ call.guarded
    /\ lastCheckHeight = call.height /\ lastCheckMnCount = call.totalMnCount
    /\ call.height > 0

\* C3: the records a recomputation stores are a function of (profile, count):
\* tier 1 below 80 on Test or below 100 on Main, tier 2 below 200, tier 3 below
\* 600, tier 4 from 600 to 2000, tier 5 (60-75 upgraded to llmq_60_75) above 2000.
C3_TierTable ==
    (call.op = "UpdateLLMQParams" /\ call.branch = "Updated") =>
        RoleNames(globalChainParams.llmqs) =
            SpecTier(globalChainParams.strNetworkID, call.totalMnCount)

\* a recomputation on Main for 2001 masternodes: the 60-75 role is upgraded
C3_Witness ==
    /\ call.op = "UpdateLLMQParams" /\ call.branch = "Updated"
    /\ globalChainParams.strNetworkID = "main"
    /\ call.totalMnCount = 2001
    /\ globalChainParams.llmqs["LLMQ_60_75"].name = "llmq_60_75"

\* C4: after a Skipped call whose count is below the profile's smallest-tier
\* threshold (80 on Test, 100 on Main) the 60-75 record is llmq_10_75.
C4_SkippedDowngradesBelowThreshold ==
    (/\ call.op = "UpdateLLMQParams" /\ call.branch = "Skipped"
     /\ \/ globalChainParams.strNetworkID = "test" /\ call.totalMnCount < 80
        \/ globalChainParams.strNetworkID = "main" /\ call.totalMnCount < 100) =>
        globalChainParams.llmqs["LLMQ_60_75"].name = "llmq_10_75"

\* C5: a Skipped call leaves lastCheckMnCount, lastCheckHeight and every
\* catalog entry other than the 60-75 record unchanged.
C5_SkippedFrame ==
    [][(UpdateStep /\ call'.branch = "Skipped") =>
          /\ lastCheckMnCount' = lastCheckMnCount
          /\ lastCheckHeight' = lastCheckHeight
          /\ DOMAIN globalChainParams'.llmqs = DOMAIN globalChainParams.llmqs
          /\ \A t \in DOMAIN globalChainParams.llmqs \ {"LLMQ_60_75"} :
                globalChainParams'.llmqs[t] = globalChainParams.llmqs[t]]_vars

\* a Skipped call that downgraded the 60-75 role while the other roles hold
\* the records of a larger tier
C5_Witness ==
    /\ call.op = "UpdateLLMQParams" /\ call.branch = "Skipped"
    /\ call.totalMnCount < 80
    /\ globalChainParams.llmqs["LLMQ_60_75"].name = "llmq_10_75"
    /\ globalChainParams.llmqs["LLMQ_400_60"].name = "llmq_400_60"
    /\ lastCheckMnCount >= 600

\* C6: on Main/Test a call that repeats the arguments of the call just before
\* it changes neither the catalog nor the last-checked state.
C6_Idempotent ==
    [][(UpdateStep /\ call'.repeat /\ OnMainOrTest) =>
          /\ globalChainParams' = globalChainParams
          /\ lastCheckMnCount' = lastCheckMnCount
          /\ lastCheckHeight' = lastCheckHeight]_vars

\* a repeated call with a count below 80, where the Skipped branch stores the
\* 60-75 record again
C6_Witness ==
    /\ call.op = "UpdateLLMQParams" /\ call.repeat
    /\ call.branch = "Skipped" /\ call.totalMnCount < 80
    /\ OnMainOrTest

\* C7: on Dev and Regtest UpdateLLMQParams changes no catalog record and
\* neither last-checked variable, for every count, height and state.
C7_DevRegtestNoOp ==
    [][(UpdateStep /\ globalChainParams.strNetworkID \in {"devnet", "regtest"}) =>
          /\ globalChainParams' = globalChainParams
          /\ lastCheckMnCount' = lastCheckMnCount
          /\ lastCheckHeight' = lastCheckHeight]_vars

\* a call on Regtest whose arguments would pass the guard of the adapted profiles
C7_Witness ==
    /\ call.op = "UpdateLLMQParams"
    /\ globalChainParams.strNetworkID = "regtest"
    /\ lastCheckHeight < call.height
    /\ lastCheckMnCount # call.totalMnCount

-----------------------------------------------------------------------------
(* Properties of the masternode activation query *)

\* the deployments of the selected table whose configured bit is nBit
DeploymentsWithBit(nBit) ==
    {d \in DOMAIN globalChainParams.vDeployments :
        globalChainParams.vDeployments[d].bit = nBit}

\* call records an IsValidMNActivation invocation that returned
QueryReturned == call.op = "IsValidMNActivation" /\ call.branch = "return"

\* C8: for a bit configured for a deployment and a timePast with
\* startTime <= timePast <= timeout, IsValidMNActivation returns that
\* deployment's useEHF flag.
C8_InWindowReturnsUseEHF ==
    QueryReturned =>
        \A d \in DeploymentsWithBit(call.nBit) :
            LET dep == globalChainParams.vDeployments[d]
            IN  (dep.nStartTime <= call.timePast /\ call.timePast <= dep.nTimeout)
                    => call.result = dep.useEHF

\* a query at the timeout bound of a deployment whose useEHF flag is not set
C8_Witness ==
    /\ QueryReturned
    /\ \E d \in DeploymentsWithBit(call.nBit) :
          /\ globalChainParams.vDeployments[d].nTimeout = call.timePast
          /\ globalChainParams.vDeployments[d].nStartTime < call.timePast
          /\ ~globalChainParams.vDeployments[d].useEHF
    /\ call.result = FALSE

\* C9: for a bit configured for a deployment and a timePast outside that
\* deployment's window, IsValidMNActivation returns false.
C9_OutOfWindowReturnsFalse ==
    QueryReturned =>
        \A d \in DeploymentsWithBit(call.nBit) :
            LET dep == globalChainParams.vDeployments[d]
            IN  (call.timePast < dep.nStartTime \/ call.timePast > dep.nTimeout)
                    => call.result = FALSE

\* C10 (as claimed): for every bit configured for no deployment, values at or
\* above the number of version bits included, the query returns true and
\* does not abort.
C10_UnknownBitReturnsTrue ==
    (call.op = "IsValidMNActivation" /\ DeploymentsWithBit(call.nBit) = {}) =>
        (call.branch = "return" /\ call.result = TRUE /\ ~aborted)

\* C10 (amended): for every bit below VERSIONBITS_NUM_BITS configured for no
\* deployment the query returns true, does not abort and changes no state.
C10_UnknownBitBelowNumBits ==
    [][(/\ call'.op = "IsValidMNActivation"
        /\ call'.nBit < VERSIONBITS_NUM_BITS
        /\ DeploymentsWithBit(call'.nBit) = {}) =>
          /\ call'.branch = "return" /\ call'.result = TRUE
          /\ aborted' = aborted
          /\ globalChainParams' = globalChainParams
          /\ lastCheckMnCount' = lastCheckMnCount
          /\ lastCheckHeight' = lastCheckHeight]_vars

\* a query for an unconfigured bit on a table changed by -vbparams
C10_Witness ==
    /\ QueryReturned
    /\ call.nBit \in {-1, 0}
    /\ DeploymentsWithBit(call.nBit) = {}
    /\ globalChainParams.strNetworkID = "regtest"
    /\ globalChainParams.vDeployments # BaseDeployments("regtest")
    /\ call.result = TRUE

-----------------------------------------------------------------------------
(* Properties of the parameter handle and the catalog lookup *)

\* the quorum types the Main and Test profiles give a role
MainTestTypes == AdaptedTypes \cup {"LLMQ_100_67"}

\* C11: GetLLMQ(t) returns the record currently stored for t when t is
\* registered in the profile and empty when it is not, and never fails; on
\* Main/Test each of 50-60, 60-75, 400-60, 400-85 and 100-67 stays resolvable
\* after every tier replacement.
C11_GetLLMQReturnsStored ==
    call.op = "GetLLMQ" =>
        /\ call.branch = "return" /\ ~aborted
        /\ call.record = IF call.arg \in DOMAIN globalChainParams.llmqs
                         THEN globalChainParams.llmqs[call.arg]
                         ELSE Nullopt
        /\ (OnMainOrTest /\ call.arg \in MainTestTypes) => call.record # Nullopt

\* a lookup on Main of the 400-60 role while the tier of 200 masternodes has
\* stored its size variant llmq_40_60 under that role
C11_Witness ==
    /\ call.op = "GetLLMQ" /\ call.arg = "LLMQ_400_60"
    /\ globalChainParams.strNetworkID = "main"
    /\ lastCheckMnCount = 200
    /\ call.record.name = "llmq_40_60"

\* C12: Params() aborts on its assertion while no SelectParams has succeeded;
\* after a successful SelectParams(network) it returns the object of exactly
\* that network: a successful selection sets the network of the handle, no
\* other step changes it, and Params() returns the handle's object.
C12_ParamsAssertsUntilSelected ==
    [][/\ (call'.op = "Params" /\ globalChainParams = NullParams) =>
              (call'.branch = "assert" /\ aborted')
       /\ (call'.op = "Params" /\ globalChainParams # NullParams) =>
              /\ call'.branch = "return" /\ ~aborted'
              /\ call'.arg = globalChainParams.strNetworkID
              /\ globalChainParams' = globalChainParams
       /\ (call'.op = "SelectParams" /\ call'.branch = "ok") =>
              globalChainParams'.strNetworkID = call'.arg
       /\ ~(call'.op = "SelectParams" /\ call'.branch = "ok") =>
              globalChainParams'.strNetworkID = globalChainParams.strNetworkID]_vars

\* Params() returning the Test object after the catalog has been adapted
C12_Witness ==
    /\ call.op = "Params" /\ call.branch = "return"
    /\ call.arg = "test"
    /\ globalChainParams.strNetworkID = "test"
    /\ lastCheckHeight > 0

\* C13: once a SelectParams call has succeeded, no later SelectParams call
\* changes the profile or the parameter object that Params() exposes.
C13_SelectedOnce ==
    [][(call'.op = "SelectParams" /\ globalChainParams # NullParams) =>
          globalChainParams' = globalChainParams]_vars

-----------------------------------------------------------------------------
(* Properties of the -vbparams override *)

\* call records a SelectParams("regtest") invocation
RegtestSelection == call.op = "SelectParams" /\ call.arg = "regtest"

\* the fields of the i-th -vbparams string of the recorded command line
VbFields(i) == SplitString(call.args.vbparams[i], ":")

\* the number supplied in field k of the i-th -vbparams string
VbValue(i, k) == ParseInt64(VbFields(i)[k]).value

\* the fields of a -vbparams string are malformed: a field count other than
\* 3, 5 or 8, a numeric field that is no integer, or a name the table does
\* not hold
VbMalformedFields(fields) ==
    \/ Len(fields) \notin {3, 5, 8}
    \/ \E k \in 2 .. Len(fields) : ~ParseInt64(fields[k]).ok
    \/ \A d \in DeploymentPos : fields[1] # VersionBitsDeploymentInfo[d]

\* some -vbparams string of the list is malformed
VbMalformed(vbparams) ==
    \E i \in DOMAIN vbparams : VbMalformedFields(SplitString(vbparams[i], ":"))

\* the -vbparams strings of the recorded command line that name deployment d
VbNaming(d) ==
    {i \in DOMAIN call.args.vbparams : VbFields(i)[1] = VersionBitsDeploymentInfo[d]}

\* C15: on Regtest construction fails with an error and yields no object when
\* some -vbparams entry has a field count other than 3, 5 or 8, a numeric
\* field that does not parse as an integer, or an unknown deployment name.
C15_MalformedVbParamsThrow ==
    [][(/\ call'.op = "SelectParams" /\ call'.arg = "regtest"
        /\ VbMalformed(call'.args.vbparams)) =>
          /\ call'.branch = "throw"
          /\ call'.error # ""
          /\ globalChainParams' = globalChainParams]_vars

\* a Regtest selection refused for an unknown deployment name, the object of
\* an earlier selection under -vbparams still in place
C15_Witness ==
    /\ RegtestSelection /\ call.branch = "throw"
    /\ call.error = "Invalid deployment"
    /\ VbMalformed(call.args.vbparams)
    /\ globalChainParams.strNetworkID = "regtest"
    /\ globalChainParams.vDeployments # BaseDeployments("regtest")

\* C16 (as claimed): a valid entry sets exactly the fields it supplies on the
\* named deployment, to the supplied values whatever they are: all seven for 8
\* fields, start, timeout, window and thresholdStart for 5, start and timeout
\* for 3; the bit and the other deployments are unchanged.
C16_EntrySetsSuppliedFields ==
    (RegtestSelection /\ call.branch = "ok") =>
        \A d \in DeploymentPos :
            LET dep == globalChainParams.vDeployments[d]
                base == BaseDeployments("regtest")[d]
            IN  /\ dep.bit = base.bit
                /\ VbNaming(d) = {} => dep = base
                /\ \A i \in VbNaming(d) :
                      Cardinality(VbNaming(d)) = 1 =>
                        LET size == Len(VbFields(i))
                        IN  /\ dep.nStartTime = VbValue(i, 2)
                            /\ dep.nTimeout = VbValue(i, 3)
                            /\ dep.nWindowSize =
                                  IF size >= 5 THEN VbValue(i, 4) ELSE base.nWindowSize
                            /\ dep.nThresholdStart =
                                  IF size >= 5 THEN VbValue(i, 5) ELSE base.nThresholdStart
                            /\ dep.nThresholdMin =
                                  IF size = 8 THEN VbValue(i, 6) ELSE base.nThresholdMin
                            /\ dep.nFalloffCoeff =
                                  IF size = 8 THEN VbValue(i, 7) ELSE base.nFalloffCoeff
                            /\ dep.useEHF =
                                  IF size = 8 THEN VbValue(i, 8) # 0 ELSE base.useEHF

\* the value an optional field has after an entry supplied v for it
VbOptional(supplied, v, old) == IF supplied /\ v # -1 THEN v ELSE old

\* C16 (amended): a valid entry sets start and timeout to the supplied values
\* and each optional field it supplies (window and thresholdStart from 5
\* fields on, thresholdMin, falloff and useEHF with 8) unless the supplied
\* value is -1, which leaves that field unchanged; useEHF becomes true exactly
\* for a supplied value above 0; the bit and the other deployments are
\* unchanged.
C16_EntrySetsSuppliedFieldsButMinusOne ==
    (RegtestSelection /\ call.branch = "ok") =>
        \A d \in DeploymentPos :
            LET dep == globalChainParams.vDeployments[d]
                base == BaseDeployments("regtest")[d]
            IN  /\ dep.bit = base.bit
                /\ VbNaming(d) = {} => dep = base
                /\ \A i \in VbNaming(d) :
                      Cardinality(VbNaming(d)) = 1 =>
                        LET size == Len(VbFields(i))
                        IN  /\ dep.nStartTime = VbValue(i, 2)
                            /\ dep.nTimeout = VbValue(i, 3)
                            /\ dep.nWindowSize =
                                  VbOptional(size >= 5, VbValue(i, 4), base.nWindowSize)
                            /\ dep.nThresholdStart =
                                  VbOptional(size >= 5, VbValue(i, 5), base.nThresholdStart)
                            /\ dep.nThresholdMin =
                                  VbOptional(size = 8, VbValue(i, 6), base.nThresholdMin)
                            /\ dep.nFalloffCoeff =
                                  VbOptional(size = 8, VbValue(i, 7), base.nFalloffCoeff)
                            /\ dep.useEHF =
                                  IF size = 8 /\ VbValue(i, 8) # -1 THEN VbValue(i, 8) > 0
                                                                    ELSE base.useEHF

\* an 8-field entry for testdummy whose window is -1: the window keeps its
\* value while the fields after it take the supplied ones
C16_Witness ==
    /\ RegtestSelection /\ call.branch = "ok"
    /\ Len(call.args.vbparams) = 1
    /\ VbNaming(DEPLOYMENT_TESTDUMMY) = {1}
    /\ Len(VbFields(1)) = 8
    /\ VbValue(1, 4) = -1
    /\ globalChainParams.vDeployments[DEPLOYMENT_TESTDUMMY].nWindowSize =
          BaseDeployments("regtest")[DEPLOYMENT_TESTDUMMY].nWindowSize
    /\ globalChainParams.vDeployments[DEPLOYMENT_TESTDUMMY].nThresholdMin = VbValue(1, 6)

-----------------------------------------------------------------------------
(* Properties of the quorum-role overrides and of construction *)

\* the useRotation flag of the record the selected profile stores for llmqType
RoleRotates(llmqType) == GetLLMQFrom(globalChainParams.llmqs, 1, llmqType).useRotation

\* the option value names a record of the constructed catalog whose
\* useRotation flag is rotation
OverrideAccepted(value, chain, rotation) ==
    \E llmqType \in DOMAIN BaseLLMQs(chain) :
        /\ BaseLLMQs(chain)[llmqType].name = value
        /\ BaseLLMQs(chain)[llmqType].useRotation = rotation

\* C17: after a Dev or Regtest construction that accepted its quorum-role
\* overrides the instant-send (DIP0024) role is a rotation quorum and the
\* chain-lock, platform and masternode-hard-fork roles are non-rotation
\* quorums; an override naming a type of the wrong rotation, or a name the
\* catalog does not hold, makes the construction fail with an error.
C17_RoleOverridesRespectRotation ==
    (call.op = "SelectParams" /\ call.arg \in {"devnet", "regtest"}) =>
        /\ call.branch = "ok" =>
              /\ RoleRotates(globalChainParams.llmqTypeDIP0024InstantSend)
              /\ ~RoleRotates(globalChainParams.llmqTypeChainLocks)
              /\ ~RoleRotates(globalChainParams.llmqTypePlatform)
              /\ ~RoleRotates(globalChainParams.llmqTypeMnhf)
        /\ (call.arg = "devnet" /\
            \/ /\ call.args.llmqchainlocks # Unset
               /\ ~OverrideAccepted(call.args.llmqchainlocks, "devnet", FALSE)
            \/ /\ call.args.llmqinstantsenddip0024 # Unset
               /\ ~OverrideAccepted(call.args.llmqinstantsenddip0024, "devnet", TRUE)
            \/ /\ call.args.llmqplatform # Unset
               /\ ~OverrideAccepted(call.args.llmqplatform, "devnet", FALSE)
            \/ /\ call.args.llmqmnhf # Unset
               /\ ~OverrideAccepted(call.args.llmqmnhf, "devnet", FALSE)) =>
              (call.branch = "throw" /\ call.error # "")
        /\ (/\ call.arg = "regtest"
            /\ call.args.llmqtestinstantsenddip0024 # Unset
            /\ ~OverrideAccepted(call.args.llmqtestinstantsenddip0024, "regtest", TRUE)) =>
              (call.branch = "throw" /\ call.error # "")

-----------------------------------------------------------------------------
(* Properties of concurrent adaptation *)

\* the adaptation state after one whole UpdateLLMQParams(totalMnCount, height)
\* call made on the adaptation state s of the selected Main or Test profile
UpdateLLMQParamsResult(s, totalMnCount, height) ==
    IF UpdateGuard(s.llmqs, s.lastCheckHeight, s.lastCheckMnCount, totalMnCount, height)
    THEN [llmqs |-> UpdatedLLMQs(s.llmqs, globalChainParams.strNetworkID = "test",
                                 totalMnCount),
          lastCheckMnCount |-> totalMnCount,
          lastCheckHeight  |-> height]
    ELSE [s EXCEPT !.llmqs = SkippedLLMQs(s.llmqs, totalMnCount)]

\* the adaptation state after the call of thread first and then the call of
\* thread second, made one after the other from the state the first worker found
SerialOutcome(first, second) ==
    UpdateLLMQParamsResult(
        UpdateLLMQParamsResult(threads[first].base, threads[first].totalMnCount,
                               threads[first].height),
        threads[second].totalMnCount, threads[second].height)

\* C18: concurrent UpdateLLMQParams calls are serialized, so that once every
\* thread has finished its call the adaptation state is the one some
\* sequential ordering of the same calls produces.
C18_ConcurrentCallsSerialize ==
    (OnMainOrTest /\ \A t \in Threads : threads[t].pc = "done") =>
        \E first \in Threads : \E second \in Threads \ {first} :
            AdaptationState = SerialOutcome(first, second)

\* C19: a thread reading the catalog while another thread executes the
\* replacement of UpdateLLMQParams sees the catalog as it was before the
\* replacement or as it is after it, never a mix of old and new role records.
C19_ReaderSeesOldOrNew ==
    (call.op = "IsLLMQsMiningPhase" /\ OnMainOrTest) =>
        \A w \in Threads :
            (/\ threads[w].pc \in {"lastCheckMnCount", "lastCheckHeight", "store"}
             /\ \A u \in Threads \ {w} : threads[u].pc = "idle") =>
                \/ call.observed = threads[w].pre
                \/ call.observed =
                      UpdatedLLMQs(threads[w].pre, globalChainParams.strNetworkID = "test",
                                   threads[w].totalMnCount)

-----------------------------------------------------------------------------
(* Properties of the adaptation state over the life of the process *)

\* C21: the adaptation state starts as lastCheckHeight = -1 and
\* lastCheckMnCount = 0, and only UpdateLLMQParams writes it: no selection
\* (a repeated one included), construction, lookup, activation query,
\* mining-phase query or override parsing changes or resets either variable.
C21_OnlyUpdateWritesLastCheck ==
    /\ lastCheckHeight = -1
    /\ lastCheckMnCount = 0
    /\ [][call'.op # "UpdateLLMQParams" =>
            /\ lastCheckMnCount' = lastCheckMnCount
            /\ lastCheckHeight' = lastCheckHeight]_vars

\* a repeated, successful selection made after an adaptation call has written
\* the last-checked state
C21_Witness ==
    /\ call.op = "SelectParams" /\ call.branch = "ok"
    /\ lastCheckHeight > 0 /\ lastCheckMnCount = 600
    /\ globalChainParams = BaseParams("main")

\* C22: the Skipped branch is a one-way ratchet for the 60-75 role: while the
\* 60-75 record is llmq_10_75 no Skipped invocation changes it, whatever its
\* count (at or above the threshold, or equal to lastCheckMnCount); an
\* invocation that changes the record has taken the Updated branch.
C22_SkippedNeverRestores ==
    [][(/\ UpdateStep
        /\ OnMainOrTest
        /\ globalChainParams.llmqs["LLMQ_60_75"] = LLMQParams("llmq_10_75")) =>
          /\ call'.branch = "Skipped" =>
                globalChainParams'.llmqs["LLMQ_60_75"] = LLMQParams("llmq_10_75")
          /\ globalChainParams'.llmqs["LLMQ_60_75"] # LLMQParams("llmq_10_75") =>
                call'.branch = "Updated"]_vars

\* a Skipped invocation whose count is lastCheckMnCount, of the fourth tier
\* or above, made while the 60-75 record is the llmq_10_75 an earlier Skipped
\* invocation stored: the record stays
C22_Witness ==
    /\ call.op = "UpdateLLMQParams" /\ call.branch = "Skipped"
    /\ OnMainOrTest
    /\ call.totalMnCount = lastCheckMnCount /\ lastCheckMnCount >= 600
    /\ globalChainParams.llmqs["LLMQ_60_75"] = LLMQParams("llmq_10_75")
    /\ globalChainParams.llmqs["LLMQ_400_60"] = LLMQParams("llmq_400_60")

-----------------------------------------------------------------------------
(* Properties of the mining-phase queries *)

\* height mod dkgInterval lies in [dkgMiningWindowStart, dkgMiningWindowEnd]
InMiningWindow(params, nHeight) ==
    (nHeight % params.dkgInterval) \in
        params.dkgMiningWindowStart .. params.dkgMiningWindowEnd

\* C23: IsMiningPhase(params, height) is true exactly when height mod
\* params.dkgInterval lies in the inclusive range [dkgMiningWindowStart,
\* dkgMiningWindowEnd], and IsLLMQsMiningPhase(height) is true exactly when
\* that holds for at least one record of the catalog as it is at the time of
\* the call, every registered type (the non-adapted ones too) counted.
C23_MiningPhaseIsWindowOfSomeRecord ==
    /\ \A t \in DOMAIN globalChainParams.llmqs : \A nHeight \in PhaseHeights :
          IsMiningPhase(globalChainParams.llmqs[t], nHeight) <=>
              InMiningWindow(globalChainParams.llmqs[t], nHeight)
    /\ call.op = "IsLLMQsMiningPhase" =>
          (call.result <=>
              \E t \in DOMAIN call.observed : InMiningWindow(call.observed[t], call.height))

\* a query answered true on Main by the window of one record only, at the
\* last height of the window of the 60-75 record in its second DKG interval,
\* after an adaptation call has replaced the four role records
C23_Witness ==
    /\ call.op = "IsLLMQsMiningPhase" /\ call.result
    /\ globalChainParams.strNetworkID = "main"
    /\ lastCheckMnCount = 2001
    /\ call.observed = globalChainParams.llmqs
    /\ {t \in DOMAIN call.observed : InMiningWindow(call.observed[t], call.height)}
          = {"LLMQ_60_75"}
    /\ call.height > call.observed["LLMQ_60_75"].dkgInterval
    /\ CRem(call.height, call.observed["LLMQ_60_75"].dkgInterval)
          = call.observed["LLMQ_60_75"].dkgMiningWindowEnd

-----------------------------------------------------------------------------
(* Properties of the devnet genesis block search *)

\* the smallest nonce of a non-empty set
MinNonce(satisfying) == CHOOSE n \in satisfying : \A m \in satisfying : n <= m

\* C24: the devnet genesis search terminates: trying nonces in increasing
\* order from 0 it returns the block with the smallest nonce whose hash is
\* <= the target, and it ends in the fatal assertion only if no nonce of the
\* whole nonce space satisfies the target.
C24_GenesisSearchSmallestOrAssert ==
    call.op = "FindDevNetGenesisBlock" =>
        IF call.satisfying # {}
        THEN /\ call.branch = "return"
             /\ call.nNonce = MinNonce(call.satisfying)
             /\ ~aborted
        ELSE call.branch = "assert" /\ aborted

-----------------------------------------------------------------------------
(* Properties of the constructed consensus parameters *)

\* C25: in the parameters constructed for every profile (Main, Test, Dev,
\* Regtest, without overrides) the nWindowSize of the MN_RR deployment is
\* greater than or equal to consensus.nSuperblockMaturityWindow.
C25_MnRrWindowCoversMaturityWindow ==
    (call.op = "SelectParams" /\ call.branch = "ok" /\ call.args = NoArgs) =>
        globalChainParams.vDeployments[DEPLOYMENT_MN_RR].nWindowSize >=
            globalChainParams.nSuperblockMaturityWindow

-----------------------------------------------------------------------------
(* Properties of the adaptation state within one selection *)

\* the record the tier of count gives the role llmqType on the profile network
SpecTierRecord(network, count, llmqType) ==
    LLMQParams(SpecTier(network, count)[llmqType])

\* C26: on Main/Test within one selection, in every state reached after at
\* least one UpdateLLMQParams call, the records of the 50-60, 400-60 and
\* 400-85 roles are those of the tier of lastCheckMnCount, and the 60-75
\* record is that tier's 60-75 record or llmq_10_75.
C26_CatalogMatchesTierOfLastCheck ==
    (call.op = "UpdateLLMQParams" /\ OnMainOrTest) =>
        /\ \A t \in {"LLMQ_50_60", "LLMQ_400_60", "LLMQ_400_85"} :
              globalChainParams.llmqs[t] =
                  SpecTierRecord(globalChainParams.strNetworkID, lastCheckMnCount, t)
        /\ globalChainParams.llmqs["LLMQ_60_75"] \in
              {SpecTierRecord(globalChainParams.strNetworkID, lastCheckMnCount, "LLMQ_60_75"),
               LLMQParams("llmq_10_75")}

\* on Test, after a recomputation for more than 2000 masternodes, a Skipped
\* call has downgraded the 60-75 record: it is llmq_10_75, not the tier's
C26_Witness ==
    /\ call.op = "UpdateLLMQParams" /\ call.branch = "Skipped"
    /\ globalChainParams.strNetworkID = "test"
    /\ lastCheckMnCount = 2001
    /\ globalChainParams.llmqs["LLMQ_60_75"] = LLMQParams("llmq_10_75")
    /\ globalChainParams.llmqs["LLMQ_400_85"] = LLMQParams("llmq_400_85")

\* C27: over UpdateLLMQParams calls with heights >= 0 on Main/Test,
\* lastCheckHeight never decreases, changes only to the height argument of an
\* Updated call (so it is -1 or the height of an earlier Updated call), is
\* not the -1 sentinel after a call, and a call whose height is <=
\* lastCheckHeight leaves the last-checked state unchanged.
C27_LastCheckHeightMonotone ==
    [][/\ lastCheckHeight' >= lastCheckHeight
       /\ lastCheckHeight' # lastCheckHeight =>
             /\ UpdateStep /\ call'.branch = "Updated"
             /\ lastCheckHeight' = call'.height
       /\ (UpdateStep /\ OnMainOrTest) =>
             /\ lastCheckHeight' # -1
             /\ call'.height <= lastCheckHeight =>
                   /\ lastCheckHeight' = lastCheckHeight
                   /\ lastCheckMnCount' = lastCheckMnCount]_vars

\* a call after a reorganisation: its height is below lastCheckHeight, its
\* count differs from lastCheckMnCount and the height is outside every
\* mining window, and it took the Skipped branch
C27_Witness ==
    /\ call.op = "UpdateLLMQParams" /\ call.branch = "Skipped"
    /\ OnMainOrTest
    /\ call.height < lastCheckHeight
    /\ call.totalMnCount # lastCheckMnCount
    /\ ~IsLLMQsMiningPhase(globalChainParams.llmqs, call.height)

-----------------------------------------------------------------------------
(* Frame of the adaptation engine *)

\* the names of the records of llmq/params.h
RecordNames ==
    {"llmq_10_60", "llmq_10_75", "llmq_20_60", "llmq_20_75", "llmq_20_85",
     "llmq_40_60", "llmq_40_85", "llmq_50_60", "llmq_60_75", "llmq_100_67",
     "llmq_400_60", "llmq_400_85", "llmq_devnet", "llmq_devnet_dip0024",
     "llmq_devnet_platform", "llmq_test", "llmq_test_instantsend",
     "llmq_test_v17", "llmq_test_dip0024", "llmq_test_platform"}

\* C28: UpdateLLMQParams, in either branch and on any profile, changes
\* nothing except the records stored under the 50-60, 60-75, 400-60 and
\* 400-85 keys and the two last-checked variables: the set of catalog keys,
\* every other record, the four role-type selectors, the deployment table and
\* the other consensus parameters are unchanged, and a record that changes
\* becomes a whole record of the catalogue, not a field-by-field edit.
C28_UpdateFrame ==
    [][UpdateStep =>
          /\ DOMAIN globalChainParams'.llmqs = DOMAIN globalChainParams.llmqs
          /\ \A t \in DOMAIN globalChainParams.llmqs :
                \/ globalChainParams'.llmqs[t] = globalChainParams.llmqs[t]
                \/ /\ t \in AdaptedTypes
                   /\ \E name \in RecordNames :
                         globalChainParams'.llmqs[t] = LLMQParams(name)
          /\ [globalChainParams' EXCEPT !.llmqs = globalChainParams.llmqs]
                = globalChainParams
          /\ aborted' = aborted]_vars

\* an Updated call on Main that replaced the 60-member 60-75 record by the
\* 10-member one and every other role record too
C28_Witness ==
    /\ call.op = "UpdateLLMQParams" /\ call.branch = "Updated"
    /\ globalChainParams.strNetworkID = "main"
    /\ call.totalMnCount = 79 /\ call.sentinel
    /\ globalChainParams.llmqs["LLMQ_60_75"].size = 10
    /\ globalChainParams.llmqs["LLMQ_100_67"] = LLMQParams("llmq_100_67")
    /\ [globalChainParams EXCEPT !.llmqs = BaseLLMQs("main")] = BaseParams("main")

-----------------------------------------------------------------------------
(* Properties of adaptation after a selection *)

\* C29: after every successful SelectParams of Main or Test (a selection made
\* after an earlier selection and earlier adaptation calls included), the
\* first UpdateLLMQParams(count, height) call that follows performs a tier
\* recomputation: the four role records of the freshly constructed catalog
\* become those of the tier of count.
C29_FirstCallAfterSelectionRecomputes ==
    [][(/\ UpdateStep
        /\ call.op = "SelectParams" /\ call.branch = "ok"
        /\ OnMainOrTest) =>
          /\ call'.branch = "Updated"
          /\ RoleNames(globalChainParams'.llmqs) =
                SpecTier(globalChainParams.strNetworkID, call'.totalMnCount)]_vars

-----------------------------------------------------------------------------
(* Eventual adaptation *)

\* C30: on Main/Test, with UpdateLLMQParams called once per block at heights
\* increasing by one and the supplied count staying at a fixed value c, the
\* engine eventually has lastCheckMnCount = c and the four role records of
\* the tier of c.  A call that does not adapt when the count is unchanged and
\* the height is outside every mining window is followed by no call that
\* does while the count stays c, so the eventuality is decided at such a
\* call: after it lastCheckMnCount = c and the role records are the tier's.
C30_FixedCountEventuallyAdapted ==
    [][(/\ UpdateStep
        /\ OnMainOrTest
        /\ call.op = "UpdateLLMQParams"
        /\ call'.height = call.height + 1
        /\ call'.totalMnCount = call.totalMnCount
        /\ ~IsLLMQsMiningPhase(globalChainParams.llmqs, call'.height)) =>
          /\ lastCheckMnCount' = call'.totalMnCount
          /\ RoleNames(globalChainParams'.llmqs) =
                SpecTier(globalChainParams.strNetworkID, call'.totalMnCount)]_vars

====
